---- MODULE Spec2Model ----
(***************************************************************************)
(* agent-builder: the agent execution core (src/agents/base.ts), the       *)
(* AgentEngine that owns a registry of agents, and the CachePlugin         *)
(* (src/plugins/cache.ts over src/plugins/base.ts), and the TaskAgent      *)
(* (src/agents/task.ts) with its map of tasks.                             *)
(*                                                                         *)
(* Agent core: the retry wrapper executeWithRetry, one attempt             *)
(* executeInternal, the metrics update, shutdown and resetMetrics of one   *)
(* Agent instance, with several executeWithRetry calls interleaving on the *)
(* single logical thread.                                                  *)
(*                                                                         *)
(* A step of the model is what runs between two suspension points of the   *)
(* code: Call runs executeWithRetry up to the await inside executeInternal,*)
(* Settle runs from the end of that await to the next await (the backoff   *)
(* sleep) or to the return, Wake runs from the end of the sleep to the     *)
(* await of the next attempt.                                              *)
(*                                                                         *)
(* Engine: registerAgentType, createAgent, executeAgent, removeAgent,      *)
(* getStats, shutdown and resetAllMetrics over the maps agentTypes and     *)
(* agents; the agents are objects of the core above, kept in heap, and an  *)
(* executeAgent call in flight is a dispatch that holds its own reference  *)
(* to the agent object.  shutdown is two steps, split at its await.        *)
(*                                                                         *)
(* Cache plugin: the cache Map with its counters, the plugin life cycle    *)
(* (init, destroy, enable, disable), the cleanup timer and a clock.        *)
(*                                                                         *)
(* Each component has its own specification; the variables of the other    *)
(* components keep their constructed values there.                         *)
(*                                                                         *)
(* Specifications:                                                         *)
(*   Spec            calls one after the other, listeners that return      *)
(*   SpecFaulty      one call, some listeners throw                        *)
(*   SpecOverlap     two calls that overlap, listeners that return         *)
(*   SpecLog         calls made after PriorFailures failed attempts        *)
(*   SpecEngine      engine calls in any order, dispatches interleaving    *)
(*   SpecEngineLive  SpecEngine with timers and promises that fire         *)
(*   SpecSettings    agents created and reconfigured, nothing executed     *)
(*   SpecCache       cache plugin calls, timer sweeps and clock ticks      *)
(*   SpecStats       SpecCache of a plugin with room for two entries, with *)
(*                   getCacheStats and exportCache                         *)
(*   SpecLimits      entries stored by hand, setDefaultTtl, setMaxEntries  *)
(*   SpecReset       agents created, executed, reconfigured and reset      *)
(*   SpecTask        TaskAgent calls, work that ends later, and shutdown   *)
(***************************************************************************)
EXTENDS Integers, Sequences, FiniteSets, TLC

(***************************************************************************)
(* Bounds of the model.                                                    *)
(***************************************************************************)
\* executeWithRetry calls started in one behaviour
MaxCalls == 2
\* an explicit retryPolicy.maxRetries ranges over 0..MaxRetriesBound
MaxRetriesBound == 1
\* calls started in one behaviour of the error-log specification
MaxLogCalls == 1
\* failed attempts made before the error-log specification starts
PriorFailures == 9
\* engine calls made in one behaviour of the engine specifications
MaxEngineCalls == 4
\* plugin calls made in one behaviour of the cache specification
MaxCacheCalls == 4
\* TaskAgent calls made in one behaviour of the task specification
MaxTaskCalls == 5
\* the clock of the cache specification runs from 0 to MaxTime milliseconds
MaxTime == 2

\* the executeWithRetry calls that may be suspended at the same time
Slots == {"c1", "c2"}

(***************************************************************************)
(* Program constants.                                                      *)
(***************************************************************************)
\* base.ts:59  default retryPolicy.maxRetries
DefaultMaxRetries == 2
\* base.ts:60  default retryPolicy.backoffMs
DefaultBackoffMs == 1000
\* base.ts:172 cap of metrics.errors
MaxErrors == 10

(***************************************************************************)
(* Values.  An optional string (error?: string, lastError) is a sequence   *)
(* of at most one string: <<>> is undefined.                               *)
(***************************************************************************)
Undefined == <<>>
Some(s) == <<s>>
\* JavaScript truthiness of an optional string: undefined and '' are falsy
Truthy(o) == o # Undefined /\ o[1] # ""
\* `${o}` in a template literal
Interpolate(o) == IF o = Undefined THEN "undefined" ELSE o[1]

AgentStatus == {"idle", "running", "error", "shutdown"}
EventNames == {"execution-start", "execution-complete", "execution-error"}

\* the last n elements of s: s.slice(-n)
sliceLast(s, n) ==
  IF Len(s) <= n THEN s ELSE SubSeq(s, Len(s) - n + 1, Len(s))

RECURSIVE pow2(_)
\* Math.pow(2, k)
pow2(k) == IF k = 0 THEN 1 ELSE 2 * pow2(k - 1)


(***************************************************************************)
(* Numbers that JavaScript computes by division are kept as exact          *)
(* fractions num/den (den > 0).                                            *)
(***************************************************************************)
Ratio(n, d) == IF n = 0 THEN [num |-> 0, den |-> 1] ELSE [num |-> n, den |-> d]
Zero == Ratio(0, 1)

(***************************************************************************)
(* Inputs: configurations, and what the concrete execute of an attempt     *)
(* does.                                                                   *)
(***************************************************************************)
\* AgentConfig.retryPolicy as given to the constructor (<<>>: not provided)
RetryPolicies ==
  {<<>>} \cup {<<[maxRetries |-> n, backoffMs |-> 10]>> : n \in 0..MaxRetriesBound}
\* AgentConfig.maxExecutionTime (0: not configured)
MaxExecutionTimes == {0, 50}

\* a thrown value: an Error with a message, or something that is no Error
Faults ==
  {[isError |-> TRUE, message |-> "boom"], [isError |-> TRUE, message |-> ""],
   [isError |-> FALSE, message |-> "boom"]}
HandlerFault == [isError |-> TRUE, message |-> "handler failed"]

\* error instanceof Error ? error.message : 'Unknown error'
errorMessage(fault) == IF fault.isError THEN fault.message ELSE "Unknown error"

\* what the promise returned by the concrete execute settles with, and the
\* Date.now() difference the attempt measures
Returns ==
  { [kind |-> "return", elapsed |-> 20,
     result |-> [success |-> TRUE, data |-> Some("out"), error |-> Undefined]],
    [kind |-> "return", elapsed |-> 5,
     result |-> [success |-> FALSE, data |-> Undefined, error |-> Some("bad input")]],
    [kind |-> "return", elapsed |-> 0,
     result |-> [success |-> FALSE, data |-> Undefined, error |-> Undefined]] }
Throws == {[kind |-> "throw", elapsed |-> 5, fault |-> f] : f \in Faults}

\* timeoutFault whose message leaves the unit out
timeoutFault_noUnit(timeoutMs) ==
  [isError |-> TRUE,
   message |-> "Execution timeout after " \o ToString(timeoutMs)]

\* new Error(`Execution timeout after ${timeoutMs}ms`)
timeoutFault(timeoutMs) ==
  [isError |-> TRUE,
   message |-> "Execution timeout after " \o ToString(timeoutMs) \o "ms"]

\* createTimeoutPromise: the timer rejects after timeoutMs
createTimeoutPromise(timeoutMs) ==
  [kind |-> "throw", elapsed |-> timeoutMs, fault |-> timeoutFault(timeoutMs)]

\* Promise.race([executionPromise, timeoutPromise]) or the bare executionPromise:
\* the ways the await of one attempt can end
Settlements(outcomes, timeoutMs) ==
  outcomes \cup (IF timeoutMs # 0 THEN {createTimeoutPromise(timeoutMs)} ELSE {})

(***************************************************************************)
(* State.                                                                  *)
(***************************************************************************)
VARIABLES
  config,                \* this.config: maxExecutionTime, retryPolicy
  status,                \* this.status
  metrics,               \* this.metrics
  totalExecutionTime,    \* this.totalExecutionTime
  successfulExecutions,  \* this.successfulExecutions
  listeners,             \* event names that have a registered listener
  calls,                 \* per slot: the frame of one executeWithRetry call
  callsLeft,             \* per slot: calls that may still be started there
  handlers,              \* event names whose listener may throw
  concrete,              \* how the promises of the concrete execute can settle
  history                \* observation: what has happened so far

\* the AgentEngine (engine/AgentEngine, src/unnamed/part_001)
VARIABLES
  agentTypes,            \* this.agentTypes: type name -> constructor
  agents,                \* this.agents: agent id -> Agent object
  totalExecutions,       \* this.totalExecutions
  heap,                  \* the Agent objects the engine has constructed
  dispatch,              \* per slot: the frame of one dispatched executeAgent call
  pending,               \* where the engine's shutdown() is suspended
  reply,                 \* observation: outcome of the latest engine call
  opsLeft                \* engine calls that may still be made

\* the CachePlugin (src/plugins/cache.ts) and its BasePlugin (src/plugins/base.ts)
VARIABLES
  cache,                 \* this.cache: the entries, in the order of insertion
  totalHits,             \* this.totalHits
  totalMisses,           \* this.totalMisses
  cacheConfig,           \* this.config: defaultTtl, maxEntries, cleanupInterval
  enabled,               \* BasePlugin.enabled
  initialized,           \* BasePlugin.initialized
  cleanupTimer,          \* this.cleanupTimer holds a timer
  timers,                \* interval timers that are running
  suspended,             \* init() and destroy() calls suspended at their await
  now,                   \* Date.now()
  seen,                  \* observation: outcome of the latest plugin call
  stored,                \* observation: per key, the entry last stored and
                         \* not deleted, evicted or cleared since
  cacheOpsLeft           \* plugin calls that may still be made

\* the TaskAgent (src/agents/task.ts)
VARIABLES
  tasks,                 \* this.tasks: task id -> Task
  runningTasks,          \* this.runningTasks
  taskSettings,          \* this.config.settings of the TaskAgent
  taskSeen,              \* observation: the latest response of execute
  taskOpsLeft            \* TaskAgent calls that may still be made

agentVars == <<config, status, metrics, totalExecutionTime, successfulExecutions,
               listeners, calls, callsLeft, handlers, concrete, history>>

engineVars == <<agentTypes, agents, totalExecutions, heap, dispatch, pending,
                reply, opsLeft>>

cacheVars == <<cache, totalHits, totalMisses, cacheConfig, enabled, initialized,
               cleanupTimer, timers, suspended, now, seen, stored, cacheOpsLeft>>

taskVars == <<tasks, runningTasks, taskSettings, taskSeen, taskOpsLeft>>

vars == <<config, status, metrics, totalExecutionTime, successfulExecutions,
          listeners, calls, callsLeft, handlers, concrete, history,
          agentTypes, agents, totalExecutions, heap, dispatch, pending,
          reply, opsLeft,
          cache, totalHits, totalMisses, cacheConfig, enabled, initialized,
          cleanupTimer, timers, suspended, now, seen, stored, cacheOpsLeft,
          tasks, runningTasks, taskSettings, taskSeen, taskOpsLeft>>

\* the fields of the Agent that one attempt reads and writes
this ==
  [status |-> status, metrics |-> metrics,
   totalExecutionTime |-> totalExecutionTime,
   successfulExecutions |-> successfulExecutions]

\* protected metrics initializer (base.ts:43-48) and resetMetrics
emptyMetrics ==
  [executionsCount |-> 0, successRate |-> Zero, averageExecutionTime |-> Zero,
   lastExecution |-> FALSE, errors |-> <<>>]

\* constructor: copies the config and fills in the default retry policy
construct(cfg) ==
  [maxExecutionTime |-> cfg.maxExecutionTime,
   retryPolicy |->
     IF cfg.retryPolicy = <<>>
       THEN [maxRetries |-> DefaultMaxRetries, backoffMs |-> DefaultBackoffMs]
       ELSE cfg.retryPolicy[1]]


(***************************************************************************)
(* updateMetrics (base.ts:161-178), on the Agent fields t.                 *)
(***************************************************************************)
\* recordOutcome keeping the first MaxErrors messages: slice(0, 10) for slice(-10)
recordOutcome_keepOldest(t, response) ==
  IF response.success
    THEN [t EXCEPT !.successfulExecutions = @ + 1]
    ELSE IF Truthy(response.error)
      THEN LET pushed == Append(t.metrics.errors, response.error[1])
           IN  [t EXCEPT !.metrics.errors =
                  IF Len(pushed) > MaxErrors
                    THEN SubSeq(pushed, 1, MaxErrors) ELSE pushed]
      ELSE t

\* lines 167-175: the success counter and the bounded error log
recordOutcome(t, response) ==
  IF response.success
    THEN [t EXCEPT !.successfulExecutions = @ + 1]
    ELSE IF Truthy(response.error)
      THEN LET pushed == Append(t.metrics.errors, response.error[1])
           IN  [t EXCEPT !.metrics.errors =
                  IF Len(pushed) > MaxErrors
                    THEN sliceLast(pushed, MaxErrors) ELSE pushed]
      ELSE t

\* line 177
successRate(t) == Ratio(t.successfulExecutions * 100, t.metrics.executionsCount)

updateMetrics(t, response) ==
  LET count == t.metrics.executionsCount + 1
      total == t.totalExecutionTime + response.executionTime
      t1 == [t EXCEPT !.metrics.executionsCount = count,
                      !.totalExecutionTime = total,
                      !.metrics.averageExecutionTime = Ratio(total, count),
                      !.metrics.lastExecution = TRUE]
      t2 == recordOutcome(t1, response)
  IN  [t2 EXCEPT !.metrics.successRate = successRate(t2)]

(***************************************************************************)
(* executeInternal (base.ts:97-151).  An attempt in progress is a record   *)
(* x: the Agent fields x.t, the events emitted so far x.events, and the    *)
(* number of updateMetrics calls the attempt has made x.updates.  L is the *)
(* set of event names with a listener, F the set of event names whose      *)
(* listener throws during this attempt.                                    *)
(***************************************************************************)
\* this.emit(name, ...): every listener runs synchronously and reads the Agent
emit(x, L, name) ==
  [x EXCEPT !.events =
     Append(@, [name |-> name, delivered |-> name \in L,
                executionsCount |-> x.t.metrics.executionsCount,
                status |-> x.t.status, updates |-> x.updates])]

\* the fault a listener of name lets escape from emit, if any
emitFault(L, F, name) == IF name \in (L \cap F) THEN Some(HandlerFault) ELSE <<>>

\* catchBlock without the updateMetrics call of line 145
catchBlock_noMetrics(x, L, F, fault, elapsed) ==
  LET response == [success |-> FALSE, data |-> Undefined,
                   error |-> Some(errorMessage(fault)), executionTime |-> elapsed]
      x2 == [x EXCEPT !.t.status = "error"]
      x3 == emit(x2, L, "execution-error")
      thrown == emitFault(L, F, "execution-error")
  IN  [x |-> x3, raised |-> thrown # <<>>,
       response |-> IF thrown # <<>> THEN <<>> ELSE Some(response),
       fault |-> thrown]

\* lines 135-150: the catch block; the attempt returns a response unless the
\* 'execution-error' listener throws
catchBlock(x, L, F, fault, elapsed) ==
  LET response == [success |-> FALSE, data |-> Undefined,
                   error |-> Some(errorMessage(fault)), executionTime |-> elapsed]
      x1 == [x EXCEPT !.t = updateMetrics(x.t, response), !.updates = @ + 1]
      x2 == [x1 EXCEPT !.t.status = "error"]
      x3 == emit(x2, L, "execution-error")
      thrown == emitFault(L, F, "execution-error")
  IN  [x |-> x3, raised |-> thrown # <<>>,
       response |-> IF thrown # <<>> THEN <<>> ELSE Some(response),
       fault |-> thrown]

\* lines 98-109: up to the emit of 'execution-start'
startAttempt(t, L, F) ==
  LET x0 == [t |-> [t EXCEPT !.status = "running"], events |-> <<>>, updates |-> 0]
  IN  [x |-> emit(x0, L, "execution-start"),
       thrown |-> emitFault(L, F, "execution-start")]

\* completeBlock emitting 'execution-complete' before it updates the metrics
completeBlock_emitFirst(x, L, F, result, elapsed) ==
  LET response == [success |-> result.success, data |-> result.data,
                   error |-> result.error, executionTime |-> elapsed]
      x1 == emit([x EXCEPT !.t.status = "idle"], L, "execution-complete")
      x2 == [x1 EXCEPT !.t = updateMetrics(x1.t, response), !.updates = @ + 1]
      thrown == emitFault(L, F, "execution-complete")
  IN  IF thrown # <<>>
        THEN catchBlock(x2, L, F, thrown[1], elapsed)
        ELSE [x |-> x2, raised |-> FALSE, response |-> Some(response),
              fault |-> <<>>]

\* lines 122-133: the awaited promise was fulfilled with result
completeBlock(x, L, F, result, elapsed) ==
  LET response == [success |-> result.success, data |-> result.data,
                   error |-> result.error, executionTime |-> elapsed]
      x1 == [x EXCEPT !.t = updateMetrics(x.t, response), !.updates = @ + 1]
      x2 == [x1 EXCEPT !.t.status = "idle"]
      x3 == emit(x2, L, "execution-complete")
      thrown == emitFault(L, F, "execution-complete")
  IN  IF thrown # <<>>
        THEN catchBlock(x3, L, F, thrown[1], elapsed)
        ELSE [x |-> x3, raised |-> FALSE, response |-> Some(response),
              fault |-> <<>>]

\* lines 118-150: the await of the attempt ends with settlement s
settleAttempt(x, L, F, s) ==
  IF s.kind = "return"
    THEN completeBlock(x, L, F, s.result, s.elapsed)
    ELSE catchBlock(x, L, F, s.fault, s.elapsed)


(***************************************************************************)
(* executeWithRetry (base.ts:65-95).  The frame k of one call holds its    *)
(* locals (maxRetries, backoffMs, lastError, attempt), where it is         *)
(* suspended (pc), what it returned (result) or threw (threw), and, as     *)
(* observations, the outcome of its latest attempt (last), the events of   *)
(* that attempt, whether the timer of maxExecutionTime ended it            *)
(* (timedOut), the number of times it invoked the concrete execute and the *)
(* sleeps it has made.                                                     *)
(***************************************************************************)
freeFrame ==
  [pc |-> "free", maxRetries |-> 0, backoffMs |-> 0, attempt |-> 0,
   lastError |-> Undefined, timeoutMs |-> 0, sleepMs |-> 0,
   result |-> <<>>, threw |-> <<>>,
   last |-> <<>>, events |-> <<>>, updates |-> 0, invoked |-> 0, slept |-> <<>>,
   timedOut |-> FALSE]

\* line 66: the retry policy is read once, when the call starts
newFrame(cfg) ==
  [freeFrame EXCEPT !.maxRetries = cfg.retryPolicy.maxRetries,
                    !.backoffMs = cfg.retryPolicy.backoffMs]

\* exhausted naming maxRetries attempts instead of maxRetries + 1
exhausted_offByOne(k) ==
  [k EXCEPT !.pc = "done",
            !.result = Some([success |-> FALSE, data |-> Undefined,
                             error |-> Some("Failed after "
                                            \o ToString(k.maxRetries)
                                            \o " attempts. Last error: "
                                            \o Interpolate(k.lastError)),
                             executionTime |-> 0])]

\* lines 90-94: every attempt failed
exhausted(k) ==
  [k EXCEPT !.pc = "done",
            !.result = Some([success |-> FALSE, data |-> Undefined,
                             error |-> Some("Failed after "
                                            \o ToString(k.maxRetries + 1)
                                            \o " attempts. Last error: "
                                            \o Interpolate(k.lastError)),
                             executionTime |-> 0])]

\* backoff that sleeps backoffMs before every retry
backoff_constant(k) ==
  IF k.attempt < k.maxRetries
    THEN [k EXCEPT !.pc = "sleeping",
                   !.sleepMs = k.backoffMs,
                   !.slept = Append(@, k.backoffMs)]
    ELSE exhausted(k)

\* lines 77-80 and 84-86: back off unless this was the last attempt; after
\* the last attempt the loop ends
backoff(k) ==
  IF k.attempt < k.maxRetries
    THEN [k EXCEPT !.pc = "sleeping",
                   !.sleepMs = k.backoffMs * pow2(k.attempt),
                   !.slept = Append(@, k.backoffMs * pow2(k.attempt))]
    ELSE exhausted(k)

\* afterAttempt without the catch of lines 81-87: a fault of executeInternal
\* leaves executeWithRetry
afterAttempt_uncaught(k, a) ==
  LET k1 == [k EXCEPT !.last = Some([raised |-> a.raised, response |-> a.response]),
                      !.events = a.x.events, !.updates = a.x.updates]
  IN  IF a.raised
        THEN [k1 EXCEPT !.pc = "done", !.threw = a.fault]
        ELSE IF a.response[1].success
          THEN [k1 EXCEPT !.pc = "done", !.result = a.response]
          ELSE backoff([k1 EXCEPT !.lastError = a.response[1].error])

\* afterAttempt without the return of lines 72-74: a successful attempt is
\* retried like a failed one
afterAttempt_noReturn(k, a) ==
  LET k1 == [k EXCEPT !.last = Some([raised |-> a.raised, response |-> a.response]),
                      !.events = a.x.events, !.updates = a.x.updates]
  IN  IF a.raised
        THEN backoff([k1 EXCEPT !.lastError = Some(errorMessage(a.fault[1]))])
        ELSE backoff([k1 EXCEPT !.lastError = a.response[1].error])

\* lines 71-87: the loop body after executeInternal has settled with a
afterAttempt(k, a) ==
  LET k1 == [k EXCEPT !.last = Some([raised |-> a.raised, response |-> a.response]),
                      !.events = a.x.events, !.updates = a.x.updates]
  IN  IF a.raised
        THEN backoff([k1 EXCEPT !.lastError = Some(errorMessage(a.fault[1]))])
        ELSE IF a.response[1].success
          THEN [k1 EXCEPT !.pc = "done", !.result = a.response]
          ELSE backoff([k1 EXCEPT !.lastError = a.response[1].error])

\* line 71 up to the await inside executeInternal: the attempt starts, and is
\* over at once when the 'execution-start' listener throws
beginAttempt(k, t, cfg, L, F) ==
  LET s == startAttempt(t, L, F)
  IN  IF s.thrown # <<>>
        THEN LET a == catchBlock(s.x, L, F, s.thrown[1], 0)
             IN  [t |-> a.x.t, k |-> afterAttempt([k EXCEPT !.timedOut = FALSE], a)]
        ELSE [t |-> s.x.t,
              k |-> [k EXCEPT !.pc = "inflight", !.last = <<>>,
                              !.timedOut = FALSE,
                              !.timeoutMs = cfg.maxExecutionTime,
                              !.events = s.x.events, !.updates = s.x.updates,
                              !.invoked = @ + 1]]

\* the await inside executeInternal returns and the loop body runs on
resumeAttempt(k, t, L, F, s) ==
  LET a == settleAttempt([t |-> t, events |-> k.events, updates |-> k.updates],
                         L, F, s)
  IN  [t |-> a.x.t,
       k |-> afterAttempt([k EXCEPT !.timedOut = (s = createTimeoutPromise(k.timeoutMs))],
                          a)]


(***************************************************************************)
(* Operations.                                                             *)
(***************************************************************************)
\* the listeners that throw during one attempt
ListenerFaults == SUBSET handlers

\* the Agent fields and the frame of slot c after a step of its call; history
\* notes an invocation of the concrete execute and the error of an attempt
\* that returned a failure
store(c, r) ==
  /\ calls' = [calls EXCEPT ![c] = r.k]
  /\ status' = r.t.status
  /\ metrics' = r.t.metrics
  /\ totalExecutionTime' = r.t.totalExecutionTime
  /\ successfulExecutions' = r.t.successfulExecutions
  /\ history' = [history EXCEPT
       !.invocations = @ + (IF r.k.pc = "inflight" THEN 1 ELSE 0),
       !.failures = @ \o (IF r.k.pc # "inflight" /\ r.k.last # <<>>
                             /\ ~r.k.last[1].raised
                             /\ ~r.k.last[1].response[1].success
                           THEN <<r.k.last[1].response[1].error>> ELSE <<>>)]

\* agent.executeWithRetry(input, context) is called and runs up to its first await
Call(c) ==
  /\ calls[c].pc \in {"free", "done"}
  /\ callsLeft[c] > 0
  /\ callsLeft' = [callsLeft EXCEPT ![c] = @ - 1]
  /\ \E F \in ListenerFaults :
       store(c, beginAttempt(newFrame(config), this, config, listeners, F))
  /\ UNCHANGED <<config, listeners, handlers, concrete>>
  /\ UNCHANGED engineVars
  /\ UNCHANGED cacheVars
  /\ UNCHANGED taskVars

\* the promise awaited by the attempt of slot c settles
Settle(c) ==
  /\ calls[c].pc = "inflight"
  /\ \E s \in Settlements(concrete, calls[c].timeoutMs), F \in ListenerFaults :
       store(c, resumeAttempt(calls[c], this, listeners, F, s))
  /\ UNCHANGED <<config, listeners, callsLeft, handlers, concrete>>
  /\ UNCHANGED engineVars
  /\ UNCHANGED cacheVars
  /\ UNCHANGED taskVars

\* the backoff timer of slot c fires: attempt++ and the next attempt starts
Wake(c) ==
  /\ calls[c].pc = "sleeping"
  /\ \E F \in ListenerFaults :
       store(c, beginAttempt([calls[c] EXCEPT !.attempt = @ + 1], this, config,
                             listeners, F))
  /\ UNCHANGED <<config, listeners, callsLeft, handlers, concrete>>
  /\ UNCHANGED engineVars
  /\ UNCHANGED cacheVars
  /\ UNCHANGED taskVars

\* shutdown (base.ts:216-219)
Shutdown ==
  /\ status' = "shutdown"
  /\ listeners' = {}
  /\ history' = [history EXCEPT !.shutdown = TRUE]
  /\ UNCHANGED <<config, metrics, totalExecutionTime, successfulExecutions,
                 calls, callsLeft, handlers, concrete>>
  /\ UNCHANGED engineVars
  /\ UNCHANGED cacheVars
  /\ UNCHANGED taskVars

\* resetMetrics that leaves successfulExecutions as it is
ResetMetrics_keepSuccesses ==
  /\ metrics' = emptyMetrics
  /\ totalExecutionTime' = 0
  /\ history' = [history EXCEPT !.reset = TRUE, !.failures = <<>>]
  /\ UNCHANGED <<config, status, successfulExecutions, listeners, calls,
                 callsLeft, handlers, concrete>>
  /\ UNCHANGED engineVars
  /\ UNCHANGED cacheVars
  /\ UNCHANGED taskVars

\* resetMetrics (base.ts:221-230)
ResetMetrics ==
  /\ metrics' = emptyMetrics
  /\ totalExecutionTime' = 0
  /\ successfulExecutions' = 0
  /\ history' = [history EXCEPT !.reset = TRUE, !.failures = <<>>]
  /\ UNCHANGED <<config, status, listeners, calls, callsLeft, handlers, concrete>>
  /\ UNCHANGED engineVars
  /\ UNCHANGED cacheVars
  /\ UNCHANGED taskVars

\* the steps of one Agent used on its own: no engine call is made
Next ==
  \/ \E c \in Slots : Call(c)
  \/ \E c \in Slots : Settle(c)
  \/ \E c \in Slots : Wake(c)
  \/ Shutdown
  \/ ResetMetrics

(***************************************************************************)
(* The engine as constructed (part_001:15-21): both maps are empty.  A map *)
(* is a function on all keys; Unregistered and NoAgent stand for a key     *)
(* that the map does not hold.  An Agent object is named by its place in   *)
(* heap.                                                                   *)
(***************************************************************************)
TypeNames == {"chat", "task"}
\* constructors given to registerAgentType; the constructor of BrokenAgent throws
AgentClasses == {"ChatAgent", "BrokenAgent"}
AgentIds == {"a1", "a2"}
\* the executeAgent calls that may be suspended at the same time
Dispatches == {"d1", "d2"}

Unregistered == "none"
NoAgent == 0

freeDispatch ==
  [pc |-> "free", agentId |-> "", obj |-> NoAgent, k |-> freeFrame,
   response |-> <<>>]

noReply ==
  [op |-> "", arg |-> "", raised |-> FALSE, error |-> "", value |-> ""]

EngineConstructed ==
  /\ agentTypes = [n \in TypeNames |-> Unregistered]
  /\ agents = [id \in AgentIds |-> NoAgent]
  /\ totalExecutions = 0
  /\ heap = <<>>
  /\ dispatch = [d \in Dispatches |-> freeDispatch]
  /\ pending = "none"
  /\ reply = noReply

(***************************************************************************)
(* The cache plugin as constructed (cache.ts:27-46, base.ts:26-32).  An    *)
(* optional number (defaultTtl, maxEntries, cleanupInterval, ttl) is a     *)
(* sequence of at most one number.                                         *)
(***************************************************************************)
\* A string that is hashed is the sequence of its UTF-16 code units.
Q1 == <<113, 49>>                                      \* q1
Q2 == <<113, 50>>                                      \* q2
A1 == <<97, 49>>                                       \* a1
Chat == <<99, 104, 97, 116>>                           \* chat
E1 == <<101, 49>>                                      \* e1
E2 == <<101, 50>>                                      \* e2
AgentIdName == <<97, 103, 101, 110, 116, 73, 100>>               \* agentId
AgentTypeName == <<97, 103, 101, 110, 116, 84, 121, 112, 101>>   \* agentType
ExecutionIdName == <<101, 120, 101, 99, 117, 116, 105, 111, 110, 73, 100>>  \* executionId

\* the inputs given to beforeExecution: a string, or an object that refers
\* to itself
Cyclic == [type |-> "cyclic", text |-> <<>>]
Inputs == {[type |-> "string", text |-> Q1], [type |-> "string", text |-> Q2], Cyclic}

\* the PluginContext given to beforeExecution (base.ts:9-15): two executions
\* of one agent, at different times
PluginContexts ==
  { [agentId |-> A1, agentType |-> Chat, executionId |-> E1, timestamp |-> 0],
    [agentId |-> A1, agentType |-> Chat, executionId |-> E2, timestamp |-> 1] }

\* JSON.stringify throws a TypeError on a value that refers to itself
circular(x) == x.type = "cyclic"

\* JSON.stringify of a string that has no character to escape
stringify(text) == <<34>> \o text \o <<34>>

\* the member "name":"text" of a serialized object
member(name, text) == stringify(name) \o <<58>> \o stringify(text)

\* a 32-bit integer is the pair of its 16-bit halves
Half == 65536

\* one round of the loop of simpleHash (cache.ts:130-132):
\* ((hash << 5) - hash) + char, cut to 32 bits by hash & hash
hashRound(hash, char) ==
  LET lo == 31 * hash.lo + char
      hi == 31 * hash.hi + (lo \div Half)
  IN  [hi |-> hi % Half, lo |-> lo % Half]

\* the 32-bit integers
Int32 == [hi : 0..(Half - 1), lo : 0..(Half - 1)]

RECURSIVE hashFrom(_, _, _)
\* the loop of simpleHash (cache.ts:129-133) from the i-th character on; hash
\* is the 32-bit value the rounds before have left
hashFrom(str, i, hash) ==
  IF i <= Len(str) /\ hash \in Int32
    THEN hashFrom(str, i + 1, hashRound(hash, str[i]))
    ELSE hash

\* Math.abs of the 32-bit two's complement integer hash
abs32(hash) ==
  IF hash.hi < Half \div 2
    THEN hash
    ELSE [hi |-> (Half - 1 - hash.hi + (IF hash.lo = 0 THEN 1 ELSE 0)) % Half,
          lo |-> (Half - hash.lo) % Half]

HexDigits == <<"0", "1", "2", "3", "4", "5", "6", "7",
               "8", "9", "a", "b", "c", "d", "e", "f">>

RECURSIVE toString16(_)
\* n.toString(16) for 0 <= n < 65536
toString16(n) ==
  IF n < 16
    THEN HexDigits[n + 1]
    ELSE toString16(n \div 16) \o HexDigits[(n % 16) + 1]

\* the four hexadecimal digits of n, 0 <= n < 65536
padded16(n) ==
  HexDigits[(n \div 4096) + 1] \o HexDigits[((n \div 256) % 16) + 1]
    \o HexDigits[((n \div 16) % 16) + 1] \o HexDigits[(n % 16) + 1]

\* simpleHash (cache.ts:125-136)
simpleHash(str) ==
  IF Len(str) = 0
    THEN "0"
    ELSE LET hash == abs32(hashFrom(str, 1, [hi |-> 0, lo |-> 0]))
         IN  "cache_" \o (IF hash.hi = 0
                            THEN toString16(hash.lo)
                            ELSE toString16(hash.hi) \o padded16(hash.lo))

\* a key generator that serializes the execution id as well
defaultKeyGenerator_withExecutionId(input, context) ==
  simpleHash(stringify(input.text)
             \o <<123>> \o member(AgentIdName, context.agentId)
             \o <<44>> \o member(AgentTypeName, context.agentType)
             \o <<44>> \o member(ExecutionIdName, context.executionId)
             \o <<125>>)

\* defaultKeyGenerator (cache.ts:113-123) of an input that can be serialized
defaultKeyGenerator(input, context) ==
  simpleHash(stringify(input.text)
             \o <<123>> \o member(AgentIdName, context.agentId)
             \o <<44>> \o member(AgentTypeName, context.agentType)
             \o <<125>>)

\* this.config.keyGenerator when the constructor is given no key function
\* (cache.ts:44), on the inputs that can be serialized
generated ==
  {[input |-> input, context |-> context,
    key |-> defaultKeyGenerator(input, context)] :
     input \in Inputs \ {Cyclic}, context \in PluginContexts}

keyGenerator(input, context) ==
  (CHOOSE g \in generated : g.input = input /\ g.context = context).key

\* the keys the hooks use: the keys generated for the inputs
Keys ==
  {keyGenerator(input, context) :
     input \in Inputs \ {Cyclic}, context \in PluginContexts}

\* the keys given to setCacheEntryManual: those, and the empty string
ManualKeys == Keys \cup {""}

\* cache.ts:33  default of the constructor's defaultTtl
DefaultTtl == 30000
\* cache.ts:42  default maxEntries
DefaultMaxEntries == 1000
\* cache.ts:43  default cleanupInterval
DefaultCleanupInterval == 60000

\* `x || d` for an optional number: undefined and 0 are falsy
orElse(x, d) == IF x = <<>> \/ x[1] = 0 THEN d ELSE x[1]

\* constructor(defaultTtl = 30000, config = {})
cacheConstruct(defaultTtl, cfg) ==
  [defaultTtl |-> IF defaultTtl = <<>> THEN DefaultTtl ELSE defaultTtl[1],
   maxEntries |-> orElse(cfg.maxEntries, DefaultMaxEntries),
   cleanupInterval |-> orElse(cfg.cleanupInterval, DefaultCleanupInterval)]

noCall == [op |-> "", key |-> "", outcome |-> "", value |-> <<>>, input |-> <<>>]

CacheConstructed(defaultTtl, cfg) ==
  /\ cache = <<>>
  /\ totalHits = 0
  /\ totalMisses = 0
  /\ cacheConfig = cacheConstruct(defaultTtl, cfg)
  /\ enabled = TRUE
  /\ initialized = FALSE
  /\ cleanupTimer = FALSE
  /\ timers = 0
  /\ suspended = [init |-> 0, destroy |-> 0]
  /\ now = 0
  /\ seen = noCall
  /\ stored = [key \in ManualKeys |-> <<>>]

\* a plugin that is constructed with the defaults and not used
\* the ids uuidv4() hands out
TaskIds == {"t1", "t2", "t3"}

\* task.ts:40  default maxConcurrentTasks
DefaultMaxConcurrentTasks == 3

\* constructor of TaskAgent (task.ts:35-46): { ...defaultSettings,
\* ...this.config.settings }, given maxConcurrentTasks or not (<<>>)
taskConstruct(given) ==
  [maxConcurrentTasks |-> IF given = <<>> THEN DefaultMaxConcurrentTasks
                                          ELSE given[1]]

noTask ==
  [op |-> "", taskId |-> "", state |-> "returned", success |-> FALSE, error |-> ""]

\* a TaskAgent as constructed
TaskConstructed(given) ==
  /\ tasks = [id \in TaskIds |-> <<>>]
  /\ runningTasks = {}
  /\ taskSettings = taskConstruct(given)
  /\ taskSeen = noTask

\* a TaskAgent that is constructed with the defaults and not used
TaskUnused ==
  /\ TaskConstructed(<<>>)
  /\ taskOpsLeft = 0

CacheUnused ==
  /\ CacheConstructed(<<>>, [maxEntries |-> <<>>, cleanupInterval |-> <<>>])
  /\ cacheOpsLeft = 0

\* the Agent as constructed, with the listeners the engine registers
Constructed(cfg) ==
  /\ config = construct(cfg)
  /\ status = "idle"
  /\ metrics = emptyMetrics
  /\ totalExecutionTime = 0
  /\ successfulExecutions = 0
  /\ listeners = EventNames
  /\ calls = [c \in Slots |-> freeFrame]
  /\ history = [invocations |-> 0, failures |-> <<>>, reset |-> FALSE,
                shutdown |-> FALSE]

Configs ==
  [maxExecutionTime : MaxExecutionTimes, retryPolicy : RetryPolicies]

\* a concrete execute whose promises settle in at most two ways (none: it
\* never settles; only a configured timeout then ends the attempt)
ConcreteAgents == {S \in SUBSET (Returns \cup Throws) : Cardinality(S) <= 2}

Init ==
  /\ \E cfg \in Configs : Constructed(cfg)
  /\ callsLeft = [c \in Slots |-> IF c = "c1" THEN MaxCalls ELSE 0]
  /\ handlers = {}
  /\ concrete \in ConcreteAgents
  /\ Cardinality(Settlements(concrete, config.maxExecutionTime)) \in 1..2
  /\ EngineConstructed
  /\ opsLeft = 0
  /\ CacheUnused
  /\ TaskUnused

Spec == Init /\ [][Next]_vars


(***************************************************************************)
(* Listeners that may throw.                                               *)
(***************************************************************************)
\* listeners added with agent.on(...): one of them throws, or the listeners
\* of both terminal events do
FaultyHandlers ==
  {{e} : e \in EventNames} \cup {{"execution-complete", "execution-error"}}

\* a single executeWithRetry call
FaultyCalls == [c \in Slots |-> IF c = "c1" THEN 1 ELSE 0]

InitFaulty ==
  /\ \E cfg \in Configs : Constructed(cfg)
  /\ callsLeft = FaultyCalls
  /\ handlers \in FaultyHandlers
  /\ concrete \in ConcreteAgents
  /\ Cardinality(Settlements(concrete, config.maxExecutionTime)) \in 1..2
  /\ EngineConstructed
  /\ opsLeft = 0
  /\ CacheUnused
  /\ TaskUnused

SpecFaulty == InitFaulty /\ [][Next]_vars

(***************************************************************************)
(* Two executeWithRetry calls on the same agent that overlap.              *)
(***************************************************************************)
InitOverlap ==
  /\ \E cfg \in Configs : cfg.retryPolicy # <<>> /\ Constructed(cfg)
  /\ callsLeft = [c \in Slots |-> 1]
  /\ handlers = {}
  /\ concrete \in ConcreteAgents
  /\ Cardinality(Settlements(concrete, config.maxExecutionTime)) \in 1..2
  /\ EngineConstructed
  /\ opsLeft = 0
  /\ CacheUnused
  /\ TaskUnused

SpecOverlap == InitOverlap /\ [][Next]_vars

(***************************************************************************)
(* The error log near its cap: the agent has already made PriorFailures    *)
(* failed attempts, one after the other, in earlier calls.                 *)
(***************************************************************************)
BadInput ==
  [kind |-> "return", elapsed |-> 5,
   result |-> [success |-> FALSE, data |-> Undefined, error |-> Some("bad input")]]
Boom == [kind |-> "throw", elapsed |-> 5, fault |-> [isError |-> TRUE, message |-> "boom"]]
Blank == [kind |-> "throw", elapsed |-> 5, fault |-> [isError |-> TRUE, message |-> ""]]

\* the i-th earlier attempt
priorSettlement(i) == IF i % 2 = 1 THEN BadInput ELSE Boom

RECURSIVE afterPrior(_)
\* the Agent fields after n earlier attempts, each run by executeInternal
afterPrior(n) ==
  IF n = 0
    THEN [status |-> "idle", metrics |-> emptyMetrics, totalExecutionTime |-> 0,
          successfulExecutions |-> 0]
    ELSE settleAttempt(startAttempt(afterPrior(n - 1), EventNames, {}).x,
                       EventNames, {}, priorSettlement(n)).x.t

InitLog ==
  /\ config = construct([maxExecutionTime |-> 0, retryPolicy |-> <<>>])
  /\ status = afterPrior(PriorFailures).status
  /\ metrics = afterPrior(PriorFailures).metrics
  /\ totalExecutionTime = afterPrior(PriorFailures).totalExecutionTime
  /\ successfulExecutions = afterPrior(PriorFailures).successfulExecutions
  /\ listeners = EventNames
  /\ calls = [c \in Slots |-> freeFrame]
  /\ history = [invocations |-> PriorFailures,
                failures |-> [i \in 1..PriorFailures |->
                                Some(IF i % 2 = 1 THEN "bad input" ELSE "boom")],
                reset |-> FALSE, shutdown |-> FALSE]
  /\ callsLeft = [c \in Slots |-> IF c = "c1" THEN MaxLogCalls ELSE 0]
  /\ handlers = {}
  /\ concrete = Returns \cup {Boom, Blank}
  /\ EngineConstructed
  /\ opsLeft = 0
  /\ CacheUnused
  /\ TaskUnused

SpecLog == InitLog /\ [][Next]_vars

(***************************************************************************)
(* The engine (part_001).  createAgent, removeAgent and the part of        *)
(* executeAgent before its await run without suspension; shutdown() is     *)
(* suspended once, at `await Promise.all(...)`, between shutting the       *)
(* agents down (ShutdownAll) and clearing the registry (ClearAgents).      *)
(* While it is suspended the caller may make further engine calls and      *)
(* promise continuations may run; timers do not fire before the            *)
(* continuation of that await.                                             *)
(***************************************************************************)
\* configurations given to createAgent
\* the keys a settings mapping may hold, and the values under them
SettingNames == {"personality", "language"}
SettingValues == {"v1", "v2"}

\* a Record<string, any> over these keys: <<>> where the key is absent
SettingsMaps == [SettingNames -> {<<>>} \cup {<<v>> : v \in SettingValues}]

\* the settings of the configurations given to createAgent
GivenSettings == [personality |-> <<"v1">>, language |-> <<>>]

EngineConfigs ==
  { [maxExecutionTime |-> 50,
     retryPolicy |-> <<[maxRetries |-> 1, backoffMs |-> 10]>>,
     settings |-> GivenSettings],
    [maxExecutionTime |-> 0,
     retryPolicy |-> <<[maxRetries |-> 0, backoffMs |-> 10]>>,
     settings |-> GivenSettings] }

Succeeds ==
  [kind |-> "return", elapsed |-> 20,
   result |-> [success |-> TRUE, data |-> Some("out"), error |-> Undefined]]

\* how the concrete execute of the registered classes settles
EngineConcrete == {{}, {Succeeds}, {Boom}, {Succeeds, BadInput}}

\* new AgentClass(config): the constructor of Agent, or a constructor that throws
newAgent(agentClass, cfg) ==
  IF agentClass = "BrokenAgent"
    THEN [thrown |-> <<[isError |-> TRUE, message |-> "invalid config"]>>,
          agent |-> <<>>]
    ELSE [thrown |-> <<>>,
          agent |-> <<[class |-> agentClass, config |-> construct(cfg),
                       settings |-> cfg.settings,
                       t |-> [status |-> "idle", metrics |-> emptyMetrics,
                              totalExecutionTime |-> 0,
                              successfulExecutions |-> 0],
                       listeners |-> {}, shut |-> FALSE]>>]

\* setupAgentEventForwarding: a listener that returns, on each of the events
setupAgentEventForwarding(agent) == [agent EXCEPT !.listeners = EventNames]

\* agent.shutdown() (base.ts:216-219); shut notes that it has been called
agentShutdown(agent) ==
  [agent EXCEPT !.t.status = "shutdown", !.listeners = {}, !.shut = TRUE]

\* resetMetrics that keeps the totals the averages are computed from
agentResetMetrics_keepsTotals(agent) ==
  [agent EXCEPT !.t.metrics = emptyMetrics]

\* agent.resetMetrics() (base.ts:221-230)
agentResetMetrics(agent) ==
  [agent EXCEPT !.t.metrics = emptyMetrics, !.t.totalExecutionTime = 0,
                !.t.successfulExecutions = 0]

\* { ...settings, ...newSettings }: the keys of both, the later value winning
spread(settings, newSettings) ==
  [k \in SettingNames |->
     IF newSettings[k] # <<>> THEN newSettings[k] ELSE settings[k]]

\* agent.updateSettings(newSettings) (base.ts:208-210)
updateSettings(agent, newSettings) ==
  [agent EXCEPT !.settings = spread(agent.settings, newSettings)]

\* the Partial<AgentConfig> objects given to updateConfig: each member is
\* <<>> where the object does not have it
ConfigUpdates ==
  [maxExecutionTime : {<<>>, <<0>>},
   settings : {<<>>} \cup {<<m>> : m \in SettingsMaps}]

\* agent.updateConfig(configUpdates) (base.ts:212-214): the members of
\* configUpdates replace the members of this.config of the same name
updateConfig(agent, configUpdates) ==
  [agent EXCEPT
     !.config.maxExecutionTime =
        IF configUpdates.maxExecutionTime # <<>>
          THEN configUpdates.maxExecutionTime[1] ELSE @,
     !.settings =
        IF configUpdates.settings # <<>> THEN configUpdates.settings[1] ELSE @]

\* registerAgentType that binds the name again
registerAgentType_rebind(types, typeName, agentClass) ==
  [raised |-> types[typeName] # Unregistered,
   error |-> IF types[typeName] # Unregistered
               THEN "Agent type '" \o typeName \o "' is already registered"
               ELSE "",
   agentTypes |-> [types EXCEPT ![typeName] = agentClass]]

\* registerAgentType (part_001:26-32)
registerAgentType(types, typeName, agentClass) ==
  IF types[typeName] # Unregistered
    THEN [raised |-> TRUE,
          error |-> "Agent type '" \o typeName \o "' is already registered",
          agentTypes |-> types]
    ELSE [raised |-> FALSE, error |-> "",
          agentTypes |-> [types EXCEPT ![typeName] = agentClass]]

\* createAgent that enters the id in the registry before it constructs the agent
createAgent_setFirst(types, registry, objects, agentId, typeName, cfg) ==
  IF registry[agentId] # NoAgent
    THEN [raised |-> TRUE,
          error |-> "Agent with ID '" \o agentId \o "' already exists",
          agents |-> registry, heap |-> objects]
    ELSE IF types[typeName] = Unregistered
      THEN [raised |-> TRUE, error |-> "Unknown agent type: " \o typeName,
            agents |-> registry, heap |-> objects]
      ELSE LET made == newAgent(types[typeName], cfg)
               blank == newAgent("ChatAgent", cfg).agent[1]
           IN  IF made.thrown # <<>>
                 THEN [raised |-> TRUE,
                       error |-> "Failed to create agent: "
                                 \o errorMessage(made.thrown[1]),
                       agents |-> [registry EXCEPT ![agentId] = Len(objects) + 1],
                       heap |-> Append(objects, blank)]
                 ELSE [raised |-> FALSE, error |-> "",
                       agents |-> [registry EXCEPT ![agentId] = Len(objects) + 1],
                       heap |-> Append(objects,
                                       setupAgentEventForwarding(made.agent[1]))]

\* createAgent (part_001:44-65)
createAgent(types, registry, objects, agentId, typeName, cfg) ==
  IF registry[agentId] # NoAgent
    THEN [raised |-> TRUE,
          error |-> "Agent with ID '" \o agentId \o "' already exists",
          agents |-> registry, heap |-> objects]
    ELSE IF types[typeName] = Unregistered
      THEN [raised |-> TRUE, error |-> "Unknown agent type: " \o typeName,
            agents |-> registry, heap |-> objects]
      ELSE LET made == newAgent(types[typeName], cfg)
           IN  IF made.thrown # <<>>
                 THEN [raised |-> TRUE,
                       error |-> "Failed to create agent: "
                                 \o errorMessage(made.thrown[1]),
                       agents |-> registry, heap |-> objects]
                 ELSE [raised |-> FALSE, error |-> "",
                       agents |-> [registry EXCEPT ![agentId] = Len(objects) + 1],
                       heap |-> Append(objects,
                                       setupAgentEventForwarding(made.agent[1]))]

\* removeAgent that leaves the id in the registry
removeAgent_noDelete(registry, objects, agentId) ==
  IF registry[agentId] = NoAgent
    THEN [value |-> "false", agents |-> registry, heap |-> objects]
    ELSE [value |-> "true", agents |-> registry,
          heap |-> [objects EXCEPT ![registry[agentId]] = agentShutdown(@)]]

\* removeAgent (part_001:115-128)
removeAgent(registry, objects, agentId) ==
  IF registry[agentId] = NoAgent
    THEN [value |-> "false", agents |-> registry, heap |-> objects]
    ELSE [value |-> "true",
          agents |-> [registry EXCEPT ![agentId] = NoAgent],
          heap |-> [objects EXCEPT ![registry[agentId]] = agentShutdown(@)]]

\* admit that counts the call before it looks the agent up
admit_countFirst(registry, objects, count, agentId) ==
  IF registry[agentId] = NoAgent
    THEN [raised |-> TRUE,
          error |-> "Agent with ID '" \o agentId \o "' not found",
          totalExecutions |-> count + 1]
    ELSE IF objects[registry[agentId]].t.status = "shutdown"
      THEN [raised |-> TRUE,
            error |-> "Agent '" \o agentId \o "' has been shutdown",
            totalExecutions |-> count + 1]
      ELSE [raised |-> FALSE, error |-> "", totalExecutions |-> count + 1]

\* executeAgent up to the call of executeWithRetry (part_001:89-98)
admit(registry, objects, count, agentId) ==
  IF registry[agentId] = NoAgent
    THEN [raised |-> TRUE,
          error |-> "Agent with ID '" \o agentId \o "' not found",
          totalExecutions |-> count]
    ELSE IF objects[registry[agentId]].t.status = "shutdown"
      THEN [raised |-> TRUE,
            error |-> "Agent '" \o agentId \o "' has been shutdown",
            totalExecutions |-> count]
      ELSE [raised |-> FALSE, error |-> "", totalExecutions |-> count + 1]

\* part_001:100-109: what executeAgent returns once executeWithRetry is over
delivered(k) ==
  IF k.threw # <<>>
    THEN Some([success |-> FALSE, data |-> Undefined,
               error |-> Some(IF k.threw[1].isError THEN k.threw[1].message
                              ELSE "Unknown execution error"),
               executionTime |-> 0])
    ELSE k.result

\* carryOn that never hands the response of executeWithRetry to the caller
carryOn_noReturn(f, r) ==
  [f EXCEPT !.pc = "running", !.k = r.k]

\* part_001:101-102: the dispatched call after a step r of its executeWithRetry
carryOn(f, r) ==
  IF r.k.pc = "done"
    THEN [f EXCEPT !.pc = "returned", !.k = r.k, !.response = delivered(r.k)]
    ELSE [f EXCEPT !.pc = "running", !.k = r.k]

RECURSIVE countByStatus(_, _, _)
\* part_001:142-145: the loop over this.agents.values()
countByStatus(ids, registry, objects) ==
  IF ids = {}
    THEN [st \in AgentStatus |-> 0]
    ELSE LET id == CHOOSE i \in ids : TRUE
             rest == countByStatus(ids \ {id}, registry, objects)
             st == objects[registry[id]].t.status
         IN  [rest EXCEPT ![st] = @ + 1]

\* the ids the registry holds
registered(registry) == {id \in AgentIds : registry[id] # NoAgent}

\* getStats that counts every agent ever constructed
getStats_countsHeap ==
  [totalAgents |-> Len(heap),
   totalExecutions |-> totalExecutions,
   availableTypes |-> {n \in TypeNames : agentTypes[n] # Unregistered},
   agentsByStatus |->
     [st \in AgentStatus |->
        Cardinality({o \in DOMAIN heap : heap[o].t.status = st})]]

\* getStats (part_001:133-153)
getStats ==
  [totalAgents |-> Cardinality(registered(agents)),
   totalExecutions |-> totalExecutions,
   availableTypes |-> {n \in TypeNames : agentTypes[n] # Unregistered},
   agentsByStatus |-> countByStatus(registered(agents), agents, heap)]

\* the outcome of an engine call, as the caller sees it
answer(op, arg, raised, error, value) ==
  [op |-> op, arg |-> arg, raised |-> raised, error |-> error, value |-> value]

\* the slot a newly dispatched call is suspended in
freeSlots == {d \in Dispatches : dispatch[d].pc # "running"}
nextSlot == IF "d1" \in freeSlots THEN "d1" ELSE "d2"

RegisterAgentType(typeName, agentClass) ==
  /\ opsLeft > 0
  /\ opsLeft' = opsLeft - 1
  /\ LET r == registerAgentType(agentTypes, typeName, agentClass)
     IN  /\ agentTypes' = r.agentTypes
         /\ reply' = answer("registerAgentType", typeName, r.raised, r.error, "")
  /\ UNCHANGED <<agents, totalExecutions, heap, dispatch, pending>>
  /\ UNCHANGED agentVars
  /\ UNCHANGED taskVars
  /\ UNCHANGED cacheVars

CreateAgent(agentId, typeName, cfg) ==
  /\ opsLeft > 0
  /\ opsLeft' = opsLeft - 1
  /\ LET r == createAgent(agentTypes, agents, heap, agentId, typeName, cfg)
     IN  /\ agents' = r.agents
         /\ heap' = r.heap
         /\ reply' = answer("createAgent", agentId, r.raised, r.error, "")
  /\ UNCHANGED <<agentTypes, totalExecutions, dispatch, pending>>
  /\ UNCHANGED agentVars
  /\ UNCHANGED taskVars
  /\ UNCHANGED cacheVars

\* executeAgent is called and runs up to its await
ExecuteAgent(agentId) ==
  /\ opsLeft > 0
  /\ opsLeft' = opsLeft - 1
  /\ freeSlots # {}
  /\ LET g == admit(agents, heap, totalExecutions, agentId)
     IN  /\ totalExecutions' = g.totalExecutions
         /\ reply' = answer("executeAgent", agentId, g.raised, g.error, "")
         /\ IF g.raised
              THEN UNCHANGED <<heap, dispatch>>
              ELSE LET o == agents[agentId]
                       r == beginAttempt(newFrame(heap[o].config), heap[o].t,
                                         heap[o].config, heap[o].listeners, {})
                       f == [freeDispatch EXCEPT !.agentId = agentId, !.obj = o]
                   IN  /\ heap' = [heap EXCEPT ![o].t = r.t]
                       /\ dispatch' = [dispatch EXCEPT
                                         ![nextSlot] = carryOn(f, r)]
  /\ UNCHANGED <<agentTypes, agents, pending>>
  /\ UNCHANGED agentVars
  /\ UNCHANGED taskVars
  /\ UNCHANGED cacheVars

\* the attempt of the dispatched call d is awaited and its promise can settle
settleDue(d) ==
  /\ dispatch[d].pc = "running"
  /\ dispatch[d].k.pc = "inflight"
  /\ Settlements(concrete, dispatch[d].k.timeoutMs) # {}

\* the dispatched call d sleeps and its timer can fire
wakeDue(d) ==
  /\ dispatch[d].pc = "running"
  /\ dispatch[d].k.pc = "sleeping"
  /\ pending = "none"

\* the promise awaited by the attempt of the dispatched call d settles
SettleDispatch(d) ==
  /\ settleDue(d)
  /\ LET o == dispatch[d].obj
     IN  \E s \in Settlements(concrete, dispatch[d].k.timeoutMs) :
           LET r == resumeAttempt(dispatch[d].k, heap[o].t, heap[o].listeners,
                                  {}, s)
           IN  /\ heap' = [heap EXCEPT ![o].t = r.t]
               /\ dispatch' = [dispatch EXCEPT ![d] = carryOn(@, r)]
  /\ UNCHANGED <<agentTypes, agents, totalExecutions, pending, reply, opsLeft>>
  /\ UNCHANGED agentVars
  /\ UNCHANGED taskVars
  /\ UNCHANGED cacheVars

\* the backoff timer of the dispatched call d fires
WakeDispatch(d) ==
  /\ wakeDue(d)
  /\ LET o == dispatch[d].obj
         r == beginAttempt([dispatch[d].k EXCEPT !.attempt = @ + 1], heap[o].t,
                           heap[o].config, heap[o].listeners, {})
     IN  /\ heap' = [heap EXCEPT ![o].t = r.t]
         /\ dispatch' = [dispatch EXCEPT ![d] = carryOn(@, r)]
  /\ UNCHANGED <<agentTypes, agents, totalExecutions, pending, reply, opsLeft>>
  /\ UNCHANGED agentVars
  /\ UNCHANGED taskVars
  /\ UNCHANGED cacheVars

RemoveAgent(agentId) ==
  /\ opsLeft > 0
  /\ opsLeft' = opsLeft - 1
  /\ LET r == removeAgent(agents, heap, agentId)
     IN  /\ agents' = r.agents
         /\ heap' = r.heap
         /\ reply' = answer("removeAgent", agentId, FALSE, "", r.value)
  /\ UNCHANGED <<agentTypes, totalExecutions, dispatch, pending>>
  /\ UNCHANGED agentVars
  /\ UNCHANGED taskVars
  /\ UNCHANGED cacheVars

\* shutdown() up to its await (part_001:159-170): every registered agent is
\* shut down inside the executor of its promise
ShutdownAll ==
  /\ opsLeft > 0
  /\ opsLeft' = opsLeft - 1
  /\ pending = "none"
  /\ pending' = "awaiting"
  /\ heap' = [o \in DOMAIN heap |->
                IF \E id \in AgentIds : agents[id] = o
                  THEN agentShutdown(heap[o]) ELSE heap[o]]
  /\ reply' = answer("shutdown", "", FALSE, "", "")
  /\ UNCHANGED <<agentTypes, agents, totalExecutions, dispatch>>
  /\ UNCHANGED agentVars
  /\ UNCHANGED taskVars
  /\ UNCHANGED cacheVars

\* shutdown() after its await (part_001:171): this.agents.clear()
ClearAgents ==
  /\ pending = "awaiting"
  /\ pending' = "none"
  /\ agents' = [id \in AgentIds |-> NoAgent]
  /\ UNCHANGED <<agentTypes, totalExecutions, heap, dispatch, reply, opsLeft>>
  /\ UNCHANGED agentVars
  /\ UNCHANGED taskVars
  /\ UNCHANGED cacheVars

\* resetAllMetrics (part_001:239-244)
ResetAllMetrics ==
  /\ opsLeft > 0
  /\ opsLeft' = opsLeft - 1
  /\ heap' = [o \in DOMAIN heap |->
                IF \E id \in AgentIds : agents[id] = o
                  THEN agentResetMetrics(heap[o]) ELSE heap[o]]
  /\ totalExecutions' = 0
  /\ reply' = answer("resetAllMetrics", "", FALSE, "", "")
  /\ UNCHANGED <<agentTypes, agents, dispatch, pending>>
  /\ UNCHANGED agentVars
  /\ UNCHANGED taskVars
  /\ UNCHANGED cacheVars

\* updateAgentConfig(agentId, configUpdates) (part_001:213-221)
UpdateAgentConfig(agentId, configUpdates) ==
  /\ opsLeft > 0
  /\ opsLeft' = opsLeft - 1
  /\ IF agents[agentId] = NoAgent
       THEN /\ reply' = answer("updateAgentConfig", agentId, FALSE, "", FALSE)
            /\ UNCHANGED heap
       ELSE /\ heap' = [heap EXCEPT ![agents[agentId]] =
                                     updateConfig(@, configUpdates)]
            /\ reply' = answer("updateAgentConfig", agentId, FALSE, "", TRUE)
  /\ UNCHANGED <<agentTypes, agents, totalExecutions, dispatch, pending>>
  /\ UNCHANGED agentVars
  /\ UNCHANGED taskVars
  /\ UNCHANGED cacheVars

\* resetAgentMetrics(agentId) (part_001:226-234)
ResetAgentMetrics(agentId) ==
  /\ opsLeft > 0
  /\ opsLeft' = opsLeft - 1
  /\ IF agents[agentId] = NoAgent
       THEN /\ reply' = answer("resetAgentMetrics", agentId, FALSE, "", FALSE)
            /\ UNCHANGED heap
       ELSE /\ heap' = [heap EXCEPT ![agents[agentId]] = agentResetMetrics(@)]
            /\ reply' = answer("resetAgentMetrics", agentId, FALSE, "", TRUE)
  /\ UNCHANGED <<agentTypes, agents, totalExecutions, dispatch, pending>>
  /\ UNCHANGED agentVars
  /\ UNCHANGED taskVars
  /\ UNCHANGED cacheVars

\* updateSettings(newSettings) called on an agent the caller holds, the one
\* createAgent or getAgent returned (base.ts:208-210)
UpdateSettings(o, newSettings) ==
  /\ opsLeft > 0
  /\ o \in DOMAIN heap
  /\ opsLeft' = opsLeft - 1
  /\ heap' = [heap EXCEPT ![o] = updateSettings(@, newSettings)]
  /\ reply' = answer("updateSettings", "", FALSE, "", "")
  /\ UNCHANGED <<agentTypes, agents, totalExecutions, dispatch, pending>>
  /\ UNCHANGED agentVars
  /\ UNCHANGED taskVars
  /\ UNCHANGED cacheVars

\* updateConfig(configUpdates) called on an agent the caller holds
\* (base.ts:212-214)
UpdateConfig(o, configUpdates) ==
  /\ opsLeft > 0
  /\ o \in DOMAIN heap
  /\ opsLeft' = opsLeft - 1
  /\ heap' = [heap EXCEPT ![o] = updateConfig(@, configUpdates)]
  /\ reply' = answer("updateConfig", "", FALSE, "", "")
  /\ UNCHANGED <<agentTypes, agents, totalExecutions, dispatch, pending>>
  /\ UNCHANGED agentVars
  /\ UNCHANGED taskVars
  /\ UNCHANGED cacheVars

NextEngine ==
  \/ \E n \in TypeNames, c \in AgentClasses : RegisterAgentType(n, c)
  \/ \E id \in AgentIds, n \in TypeNames, cfg \in EngineConfigs :
       CreateAgent(id, n, cfg)
  \/ \E id \in AgentIds : ExecuteAgent(id)
  \/ \E d \in Dispatches : SettleDispatch(d)
  \/ \E d \in Dispatches : WakeDispatch(d)
  \/ \E id \in AgentIds : RemoveAgent(id)
  \/ ShutdownAll
  \/ ClearAgents
  \/ ResetAllMetrics

\* a new engine; the variables of the single Agent above are not used
InitEngine ==
  /\ Constructed([maxExecutionTime |-> 0, retryPolicy |-> <<>>])
  /\ callsLeft = [c \in Slots |-> 0]
  /\ handlers = {}
  /\ concrete \in EngineConcrete
  /\ EngineConstructed
  /\ opsLeft = MaxEngineCalls
  /\ CacheUnused
  /\ TaskUnused

SpecEngine == InitEngine /\ [][NextEngine]_vars

\* the event loop runs every continuation and fires every timer that is due:
\* weak fairness of ClearAgents, SettleDispatch(d) and WakeDispatch(d).  For the
\* last two it is written out, settleDue(d) and wakeDue(d) being the states in
\* which the action is enabled.
EngineFairness ==
  /\ WF_vars(ClearAgents)
  /\ \A d \in Dispatches :
       /\ []<>(~settleDue(d)) \/ []<><<SettleDispatch(d)>>_vars
       /\ []<>(~wakeDue(d)) \/ []<><<WakeDispatch(d)>>_vars

\* for termination: a concrete execute that never settles, always succeeds or
\* always throws
LiveConcrete == {{}, {Succeeds}, {Boom}}

InitEngineLive ==
  /\ InitEngine
  /\ concrete \in LiveConcrete

SpecEngineLive == InitEngineLive /\ [][NextEngine]_vars /\ EngineFairness

\* the engine when agents are created and reconfigured and nothing is
\* executed
NextSettings ==
  \/ \E n \in TypeNames, c \in AgentClasses : RegisterAgentType(n, c)
  \/ \E id \in AgentIds, n \in TypeNames, cfg \in EngineConfigs :
       CreateAgent(id, n, cfg)
  \/ \E id \in AgentIds, u \in ConfigUpdates : UpdateAgentConfig(id, u)
  \/ \E o \in DOMAIN heap, m \in SettingsMaps : UpdateSettings(o, m)
  \/ \E o \in DOMAIN heap, u \in ConfigUpdates : UpdateConfig(o, u)

InitSettings ==
  /\ InitEngine
  /\ concrete = {}

SpecSettings == InitSettings /\ [][NextSettings]_vars

\* a configUpdates object that sets maxExecutionTime
TimeUpdates == {[maxExecutionTime |-> <<0>>, settings |-> <<>>]}

\* the engine when agents are created, executed, reconfigured and have
\* their metrics reset
NextReset ==
  \/ \E n \in TypeNames, c \in AgentClasses : RegisterAgentType(n, c)
  \/ \E id \in AgentIds, n \in TypeNames, cfg \in EngineConfigs :
       CreateAgent(id, n, cfg)
  \/ \E id \in AgentIds : ExecuteAgent(id)
  \/ \E d \in Dispatches : SettleDispatch(d)
  \/ \E d \in Dispatches : WakeDispatch(d)
  \/ \E id \in AgentIds, u \in TimeUpdates : UpdateAgentConfig(id, u)
  \/ \E id \in AgentIds : ResetAgentMetrics(id)
  \/ ResetAllMetrics

SpecReset == InitEngine /\ [][NextReset]_vars

(***************************************************************************)
(* The cache plugin (src/plugins/cache.ts).  An entry is a record of its   *)
(* key, value, timestamp (milliseconds), ttl and hits; this.cache is the   *)
(* sequence of the entries in the order in which their keys were first     *)
(* inserted, the order in which a Map iterates.  Every hook and every      *)
(* administrative operation runs without suspension; init() and destroy()  *)
(* of BasePlugin are suspended once, at the await of onInit / onDestroy.   *)
(***************************************************************************)
\* responses handed to the plugin: data is a string or a Date
OkText == [success |-> TRUE, data |-> [type |-> "string", text |-> "out"]]
OkDate == [success |-> TRUE, data |-> [type |-> "date", text |-> "2026-01-01T00:00:00.000Z"]]
Failed == [success |-> FALSE, data |-> [type |-> "string", text |-> "bad input"]]
\* a successful response whose data refers to itself
OkCyclic == [success |-> TRUE, data |-> [type |-> "cyclic", text |-> ""]]
Responses == {OkText, OkDate, Failed, OkCyclic}

\* JSON.parse(JSON.stringify(value)): a Date comes back as its ISO string
jsonCopy(value) == [value EXCEPT !.data.type = "string"]

\* the ttl argument of setCacheEntryManual (<<>>: not given)
Ttls == {<<>>, <<1>>}

\* the context given to afterExecution: without markers, with the markers of
\* a miss, or with the markers of a hit
Contexts ==
  {[cached |-> FALSE, cacheKey |-> <<>>, cachedResponse |-> <<>>]}
  \cup {[cached |-> FALSE, cacheKey |-> <<key>>, cachedResponse |-> <<>>] : key \in Keys}
  \cup {[cached |-> TRUE, cacheKey |-> <<key>>, cachedResponse |-> <<OkText>>] : key \in Keys}

\* isEnabled that does not look at initialized
isEnabled_enabledOnly == enabled

\* BasePlugin.isEnabled (base.ts:68-70)
isEnabled == enabled /\ initialized

\* this.cache.get(key): the place of the entry, 0 when there is none
indexOf(c, key) ==
  IF \E i \in DOMAIN c : c[i].key = key
    THEN CHOOSE i \in DOMAIN c : c[i].key = key
    ELSE 0

\* c without its i-th entry
without(c, i) == SubSeq(c, 1, i - 1) \o SubSeq(c, i + 1, Len(c))

\* isEntryValid that counts the instant timestamp + ttl as valid
isEntryValid_inclusive(entry, t) == (t - entry.timestamp) <= entry.ttl

\* isEntryValid (cache.ts:154-158) at Date.now() = t
isEntryValid(entry, t) == (t - entry.timestamp) < entry.ttl

\* if (oldestKey) (cache.ts:184): null and the empty string are falsy
truthy(key) == key # ""

RECURSIVE oldestFrom(_, _, _, _)
\* the loop of evictOldestEntry (cache.ts:177-182) from the i-th entry on
oldestFrom(c, i, oldestKey, oldestTime) ==
  IF i > Len(c)
    THEN oldestKey
    ELSE IF c[i].timestamp < oldestTime
      THEN oldestFrom(c, i + 1, i, c[i].timestamp)
      ELSE oldestFrom(c, i + 1, oldestKey, oldestTime)

\* evictOldestEntry (cache.ts:172-187) at Date.now() = t
evictOldestEntry(c, t) ==
  LET oldestKey == oldestFrom(c, 1, 0, t)
  IN  IF oldestKey # 0 /\ truthy(c[oldestKey].key)
        THEN without(c, oldestKey) ELSE c

\* setCacheEntry (cache.ts:138-152) at time t: the cache it leaves.  The copy
\* of a value that refers to itself throws (line 145), after the eviction
\* (lines 140-142) and before the entry is set (line 151).
setCacheEntry(c, cfg, t, key, value, ttl) ==
  LET c1 == IF Len(c) >= cfg.maxEntries THEN evictOldestEntry(c, t) ELSE c
      entry == [key |-> key, value |-> jsonCopy(value), timestamp |-> t,
                ttl |-> orElse(ttl, cfg.defaultTtl), hits |-> 0]
      i == indexOf(c1, key)
  IN  IF circular(value.data)
        THEN c1
        ELSE IF i = 0 THEN Append(c1, entry) ELSE [c1 EXCEPT ![i] = entry]

\* cleanupExpiredEntries (cache.ts:160-170) at time t
cleanupExpiredEntries(c, t) ==
  LET valid(entry) == isEntryValid(entry, t)
  IN  SelectSeq(c, valid)

\* what a lookup of key finds in c at time t (cache.ts:69-71, 226-230): the
\* value of the entry when there is one and it is valid, nothing otherwise
found(c, key, t) ==
  LET i == indexOf(c, key)
  IN  IF i # 0 /\ isEntryValid(c[i], t) THEN <<c[i].value>> ELSE <<>>

\* what a plugin call leaves of the observation stored: the keys that left
\* the cache c0 on the way to c1 are forgotten
remembered(c0, c1) ==
  [key \in ManualKeys |->
     IF indexOf(c0, key) # 0 /\ indexOf(c1, key) = 0 THEN <<>> ELSE stored[key]]

\* the call op on key ended with outcome and, maybe, a value
sees(op, key, outcome, value) ==
  [op |-> op, key |-> key, outcome |-> outcome, value |-> value, input |-> <<>>]

\* what beforeExecution returns: the input as it is (outcome "pass"), or a
\* copy of the input with __cached (outcome "hit" or "miss"), __cacheKey
\* and, on a hit, __cachedResponse
returns(input, key, outcome, value) ==
  [op |-> "beforeExecution", key |-> key, outcome |-> outcome, value |-> value,
   input |-> <<input>>]

\* the observation stored after an insertion under key that led from c0 to c1
inserts(c0, c1, key) ==
  [remembered(c0, c1) EXCEPT ![key] = <<[timestamp |-> c1[indexOf(c1, key)].timestamp,
                                        ttl |-> c1[indexOf(c1, key)].ttl]>>]

pluginFlags == <<enabled, initialized, cleanupTimer, timers, suspended>>

\* a plugin call is made
spend ==
  /\ cacheOpsLeft > 0
  /\ cacheOpsLeft' = cacheOpsLeft - 1

\* beforeExecution (cache.ts:63-92)
BeforeExecution(input, context) ==
  /\ spend
  /\ IF ~isEnabled
       THEN /\ seen' = returns(input, "", "pass", <<>>)
            /\ UNCHANGED <<cache, totalHits, totalMisses>>
       ELSE IF circular(input)
         THEN /\ seen' = sees("beforeExecution", "", "raised", <<>>)
              /\ UNCHANGED <<cache, totalHits, totalMisses>>
         ELSE LET cacheKey == keyGenerator(input, context)
                  i == indexOf(cache, cacheKey)
              IN  IF i # 0 /\ isEntryValid(cache[i], now)
                    THEN /\ cache' = [cache EXCEPT ![i].hits = @ + 1]
                         /\ totalHits' = totalHits + 1
                         /\ seen' = returns(input, cacheKey, "hit", <<cache[i].value>>)
                         /\ UNCHANGED totalMisses
                    ELSE /\ totalMisses' = totalMisses + 1
                         /\ seen' = returns(input, cacheKey, "miss", <<>>)
                         /\ UNCHANGED <<cache, totalHits>>
  /\ UNCHANGED <<cacheConfig, pluginFlags, now, stored>>
  /\ UNCHANGED agentVars
  /\ UNCHANGED taskVars
  /\ UNCHANGED engineVars

\* a condition to store that does not look at response.success
cacheable_anyResponse(response, context) == context.cacheKey # <<>>

\* the condition to store (cache.ts:105)
cacheable(response, context) == response.success /\ context.cacheKey # <<>>

\* afterExecution (cache.ts:94-111)
AfterExecution(response, context) ==
  /\ spend
  /\ IF ~isEnabled
       THEN /\ seen' = sees("afterExecution", "", "pass", <<response>>)
            /\ UNCHANGED <<cache, stored>>
       ELSE IF context.cached
         THEN /\ seen' = sees("afterExecution", context.cacheKey[1], "cached",
                              context.cachedResponse)
              /\ UNCHANGED <<cache, stored>>
         ELSE IF cacheable(response, context)
           THEN LET key == context.cacheKey[1]
                    c1 == setCacheEntry(cache, cacheConfig, now, key, response, <<>>)
                IN  /\ cache' = c1
                    /\ IF circular(response.data)
                         THEN /\ stored' = remembered(cache, c1)
                              /\ seen' = sees("afterExecution", key, "raised", <<>>)
                         ELSE /\ stored' = inserts(cache, c1, key)
                              /\ seen' = sees("afterExecution", key, "stored", <<response>>)
           ELSE /\ seen' = sees("afterExecution", "", "fresh", <<response>>)
                /\ UNCHANGED <<cache, stored>>
  /\ UNCHANGED <<totalHits, totalMisses, cacheConfig, pluginFlags, now>>
  /\ UNCHANGED agentVars
  /\ UNCHANGED taskVars
  /\ UNCHANGED engineVars

\* setCacheEntryManual (cache.ts:233-235)
SetCacheEntryManual(key, value, ttl) ==
  /\ spend
  /\ LET c1 == setCacheEntry(cache, cacheConfig, now, key, value, ttl)
     IN  /\ cache' = c1
         /\ IF circular(value.data)
              THEN /\ stored' = remembered(cache, c1)
                   /\ seen' = sees("setCacheEntryManual", key, "raised", <<>>)
              ELSE /\ stored' = inserts(cache, c1, key)
                   /\ seen' = sees("setCacheEntryManual", key, "stored", <<value>>)
  /\ UNCHANGED <<totalHits, totalMisses, cacheConfig, pluginFlags, now>>
  /\ UNCHANGED agentVars
  /\ UNCHANGED taskVars
  /\ UNCHANGED engineVars

\* getCacheEntry (cache.ts:225-231)
GetCacheEntry(key) ==
  /\ spend
  /\ LET i == indexOf(cache, key)
     IN  seen' = IF i # 0 /\ isEntryValid(cache[i], now)
                   THEN sees("getCacheEntry", key, "hit", <<cache[i].value>>)
                   ELSE sees("getCacheEntry", key, "miss", <<>>)
  /\ UNCHANGED <<cache, totalHits, totalMisses, cacheConfig, pluginFlags, now, stored>>
  /\ UNCHANGED agentVars
  /\ UNCHANGED taskVars
  /\ UNCHANGED engineVars

\* deleteCacheEntry (cache.ts:221-223)
DeleteCacheEntry(key) ==
  /\ spend
  /\ LET i == indexOf(cache, key)
     IN  /\ cache' = IF i # 0 THEN without(cache, i) ELSE cache
         /\ seen' = sees("deleteCacheEntry", key,
                         IF i # 0 THEN "true" ELSE "false", <<>>)
  /\ stored' = [stored EXCEPT ![key] = <<>>]
  /\ UNCHANGED <<totalHits, totalMisses, cacheConfig, pluginFlags, now>>
  /\ UNCHANGED agentVars
  /\ UNCHANGED taskVars
  /\ UNCHANGED engineVars

\* clearCache (cache.ts:215-219)
ClearCache ==
  /\ spend
  /\ cache' = <<>>
  /\ totalHits' = 0
  /\ totalMisses' = 0
  /\ stored' = [key \in ManualKeys |-> <<>>]
  /\ seen' = sees("clearCache", "", "", <<>>)
  /\ UNCHANGED <<cacheConfig, pluginFlags, now>>
  /\ UNCHANGED agentVars
  /\ UNCHANGED taskVars
  /\ UNCHANGED engineVars

\* getCacheStats whose hit rate is the number of hits per miss
getCacheStats_hitsPerMiss(c, hits, misses, t) ==
  [totalEntries |-> Len(c),
   validEntries |-> Cardinality({i \in DOMAIN c : isEntryValid(c[i], t)}),
   expiredEntries |-> Cardinality({i \in DOMAIN c : ~isEntryValid(c[i], t)}),
   hitRate |-> IF misses > 0 THEN Ratio(hits * 100, misses) ELSE Zero,
   totalHits |-> hits,
   totalMisses |-> misses]

\* getCacheStats (cache.ts:190-213) at time t; hitRate, the quotient
\* (totalHits / totalRequests) * 100, is kept as a fraction
getCacheStats(c, hits, misses, t) ==
  LET totalRequests == hits + misses
  IN  [totalEntries |-> Len(c),
       validEntries |-> Cardinality({i \in DOMAIN c : isEntryValid(c[i], t)}),
       expiredEntries |-> Cardinality({i \in DOMAIN c : ~isEntryValid(c[i], t)}),
       hitRate |-> IF totalRequests > 0 THEN Ratio(hits * 100, totalRequests) ELSE Zero,
       totalHits |-> hits,
       totalMisses |-> misses]

\* exportCache (cache.ts:271-286) at time t: the valid entries, by key
exportCache(c, t) ==
  {[key |-> c[i].key, value |-> c[i].value, timestamp |-> c[i].timestamp,
    ttl |-> c[i].ttl, hits |-> c[i].hits] :
     i \in {j \in DOMAIN c : isEntryValid(c[j], t)}}

\* getCacheStats (cache.ts:190-213)
GetCacheStats ==
  /\ spend
  /\ seen' = sees("getCacheStats", "", "returned",
                  <<getCacheStats(cache, totalHits, totalMisses, now)>>)
  /\ UNCHANGED <<cache, totalHits, totalMisses, cacheConfig, pluginFlags, now, stored>>
  /\ UNCHANGED agentVars
  /\ UNCHANGED taskVars
  /\ UNCHANGED engineVars

\* exportCache (cache.ts:271-286)
ExportCache ==
  /\ spend
  /\ seen' = sees("exportCache", "", "returned", <<exportCache(cache, now)>>)
  /\ UNCHANGED <<cache, totalHits, totalMisses, cacheConfig, pluginFlags, now, stored>>
  /\ UNCHANGED agentVars
  /\ UNCHANGED taskVars
  /\ UNCHANGED engineVars

\* setDefaultTtl (cache.ts:241-246)
SetDefaultTtl(ttl) ==
  /\ spend
  /\ IF ttl < 0
       THEN /\ seen' = sees("setDefaultTtl", "", "raised", <<>>)
            /\ UNCHANGED cacheConfig
       ELSE /\ cacheConfig' = [cacheConfig EXCEPT !.defaultTtl = ttl]
            /\ seen' = sees("setDefaultTtl", "", "returned", <<>>)
  /\ UNCHANGED <<cache, totalHits, totalMisses, pluginFlags, now, stored>>
  /\ UNCHANGED agentVars
  /\ UNCHANGED taskVars
  /\ UNCHANGED engineVars

RECURSIVE shrink(_, _, _)
\* the loop of setMaxEntries (cache.ts:260-262) while Date.now() = t: the
\* cache when it is within maxEntries or an iteration has evicted nothing
shrink(c, maxEntries, t) ==
  IF Len(c) > maxEntries /\ evictOldestEntry(c, t) # c
    THEN shrink(evictOldestEntry(c, t), maxEntries, t)
    ELSE c

\* setMaxEntries (cache.ts:252-263).  An iteration that evicts nothing is
\* repeated until the clock has moved on, after which every entry is older
\* than Date.now(); when an iteration still evicts nothing then, the loop
\* does not end: the call does not return and no other call is made.
SetMaxEntries(maxEntries) ==
  /\ cacheOpsLeft > 0
  /\ IF maxEntries < 1
       THEN /\ seen' = sees("setMaxEntries", "", "raised", <<>>)
            /\ cacheOpsLeft' = cacheOpsLeft - 1
            /\ UNCHANGED <<cache, cacheConfig, now, stored>>
       ELSE LET c1 == shrink(cache, maxEntries, now)
                c2 == shrink(c1, maxEntries, now + 1)
            IN  /\ cacheConfig' = [cacheConfig EXCEPT !.maxEntries = maxEntries]
                /\ IF Len(c1) <= maxEntries
                     THEN /\ cache' = c1
                          /\ stored' = remembered(cache, c1)
                          /\ seen' = sees("setMaxEntries", "", "returned", <<>>)
                          /\ cacheOpsLeft' = cacheOpsLeft - 1
                          /\ UNCHANGED now
                     ELSE /\ now < MaxTime
                          /\ now' = now + 1
                          /\ cache' = c2
                          /\ stored' = remembered(cache, c2)
                          /\ IF Len(c2) <= maxEntries
                               THEN /\ seen' = sees("setMaxEntries", "", "returned", <<>>)
                                    /\ cacheOpsLeft' = cacheOpsLeft - 1
                               ELSE /\ seen' = sees("setMaxEntries", "", "diverges", <<>>)
                                    /\ cacheOpsLeft' = 0
  /\ UNCHANGED <<totalHits, totalMisses, pluginFlags>>
  /\ UNCHANGED agentVars
  /\ UNCHANGED taskVars
  /\ UNCHANGED engineVars

\* enable and disable (base.ts:60-66)
Enable ==
  /\ spend
  /\ enabled' = TRUE
  /\ seen' = sees("enable", "", "", <<>>)
  /\ UNCHANGED <<cache, totalHits, totalMisses, cacheConfig, initialized,
                 cleanupTimer, timers, suspended, now, stored>>
  /\ UNCHANGED agentVars
  /\ UNCHANGED taskVars
  /\ UNCHANGED engineVars

Disable ==
  /\ spend
  /\ enabled' = FALSE
  /\ seen' = sees("disable", "", "", <<>>)
  /\ UNCHANGED <<cache, totalHits, totalMisses, cacheConfig, initialized,
                 cleanupTimer, timers, suspended, now, stored>>
  /\ UNCHANGED agentVars
  /\ UNCHANGED taskVars
  /\ UNCHANGED engineVars

\* init() up to its await (base.ts:35-42) with onInit (cache.ts:48-53): the
\* interval timer is started and its handle is kept in cleanupTimer
InitPlugin ==
  /\ spend
  /\ IF initialized
       THEN /\ seen' = sees("init", "", "returned", <<>>)
            /\ UNCHANGED <<cleanupTimer, timers, suspended>>
       ELSE /\ cleanupTimer' = TRUE
            /\ timers' = timers + 1
            /\ suspended' = [suspended EXCEPT !.init = @ + 1]
            /\ seen' = sees("init", "", "suspended", <<>>)
  /\ UNCHANGED <<cache, totalHits, totalMisses, cacheConfig, enabled,
                 initialized, now, stored>>
  /\ UNCHANGED agentVars
  /\ UNCHANGED taskVars
  /\ UNCHANGED engineVars

\* init() after its await (base.ts:44)
InitDone ==
  /\ suspended.init > 0
  /\ suspended' = [suspended EXCEPT !.init = @ - 1]
  /\ initialized' = TRUE
  /\ UNCHANGED <<cache, totalHits, totalMisses, cacheConfig, enabled,
                 cleanupTimer, timers, now, seen, stored, cacheOpsLeft>>
  /\ UNCHANGED agentVars
  /\ UNCHANGED taskVars
  /\ UNCHANGED engineVars

\* destroy() up to its await (base.ts:47-54) with onDestroy (cache.ts:55-61)
DestroyPlugin ==
  /\ spend
  /\ IF ~initialized
       THEN /\ seen' = sees("destroy", "", "returned", <<>>)
            /\ UNCHANGED <<cache, cleanupTimer, timers, suspended, stored>>
       ELSE /\ cleanupTimer' = FALSE
            /\ timers' = IF cleanupTimer THEN timers - 1 ELSE timers
            /\ cache' = <<>>
            /\ stored' = [key \in ManualKeys |-> <<>>]
            /\ suspended' = [suspended EXCEPT !.destroy = @ + 1]
            /\ seen' = sees("destroy", "", "suspended", <<>>)
  /\ UNCHANGED <<totalHits, totalMisses, cacheConfig, enabled, initialized, now>>
  /\ UNCHANGED agentVars
  /\ UNCHANGED taskVars
  /\ UNCHANGED engineVars

\* destroy() after its await (base.ts:56)
DestroyDone ==
  /\ suspended.destroy > 0
  /\ suspended' = [suspended EXCEPT !.destroy = @ - 1]
  /\ initialized' = FALSE
  /\ UNCHANGED <<cache, totalHits, totalMisses, cacheConfig, enabled,
                 cleanupTimer, timers, now, seen, stored, cacheOpsLeft>>
  /\ UNCHANGED agentVars
  /\ UNCHANGED taskVars
  /\ UNCHANGED engineVars

\* an interval timer fires (cache.ts:50-52): the expiry sweep
Sweep ==
  /\ timers > 0
  /\ cache' = cleanupExpiredEntries(cache, now)
  /\ UNCHANGED <<totalHits, totalMisses, cacheConfig, pluginFlags, now, seen,
                 stored, cacheOpsLeft>>
  /\ UNCHANGED agentVars
  /\ UNCHANGED taskVars
  /\ UNCHANGED engineVars

\* a millisecond passes
Tick ==
  /\ now < MaxTime
  /\ now' = now + 1
  /\ UNCHANGED <<cache, totalHits, totalMisses, cacheConfig, pluginFlags, seen,
                 stored, cacheOpsLeft>>
  /\ UNCHANGED agentVars
  /\ UNCHANGED taskVars
  /\ UNCHANGED engineVars

NextCache ==
  \/ \E input \in Inputs, context \in PluginContexts :
       BeforeExecution(input, context)
  \/ \E response \in Responses, context \in Contexts :
       AfterExecution(response, context)
  \/ \E key \in Keys, ttl \in Ttls : SetCacheEntryManual(key, OkText, ttl)
  \/ \E key \in Keys : GetCacheEntry(key)
  \/ \E key \in Keys : DeleteCacheEntry(key)
  \/ ClearCache
  \/ Enable
  \/ Disable
  \/ InitPlugin
  \/ InitDone
  \/ DestroyPlugin
  \/ DestroyDone
  \/ Sweep
  \/ Tick

\* the arguments of the constructor: the defaults, or a ttl of 2 ms and room
\* for one or two entries
CacheArguments ==
  { [defaultTtl |-> <<>>, maxEntries |-> <<>>],
    [defaultTtl |-> <<2>>, maxEntries |-> <<1>>],
    [defaultTtl |-> <<2>>, maxEntries |-> <<2>>] }

\* a new plugin; the Agent and the engine above are not used
InitCache ==
  /\ Constructed([maxExecutionTime |-> 0, retryPolicy |-> <<>>])
  /\ callsLeft = [c \in Slots |-> 0]
  /\ handlers = {}
  /\ concrete = {}
  /\ EngineConstructed
  /\ opsLeft = 0
  /\ \E a \in CacheArguments :
       CacheConstructed(a.defaultTtl,
                        [maxEntries |-> a.maxEntries, cleanupInterval |-> <<>>])
  /\ cacheOpsLeft = MaxCacheCalls
  /\ TaskUnused

SpecCache == InitCache /\ [][NextCache]_vars

\* the plugin constructed with a ttl of 2 ms and room for two entries, when
\* its statistics are read and its entries exported as well
InitStats ==
  /\ InitCache
  /\ cacheConfig.maxEntries = 2

NextStats ==
  \/ \E input \in Inputs, context \in PluginContexts :
       BeforeExecution(input, context)
  \/ \E response \in Responses, context \in Contexts :
       AfterExecution(response, context)
  \/ \E key \in Keys, ttl \in Ttls : SetCacheEntryManual(key, OkText, ttl)
  \/ \E key \in Keys : GetCacheEntry(key)
  \/ \E key \in Keys : DeleteCacheEntry(key)
  \/ ClearCache
  \/ Enable
  \/ Disable
  \/ InitPlugin
  \/ InitDone
  \/ DestroyPlugin
  \/ DestroyDone
  \/ Sweep
  \/ Tick
  \/ GetCacheStats
  \/ ExportCache

SpecStats == InitStats /\ [][NextStats]_vars

\* the arguments given to setDefaultTtl and to setMaxEntries
TtlArguments == {-1, 0, 1}
MaxEntriesArguments == {0, 1, 2}

\* the plugin when entries are stored by hand and its limits are changed
NextLimits ==
  \/ \E key \in ManualKeys, ttl \in Ttls : SetCacheEntryManual(key, OkText, ttl)
  \/ \E key \in ManualKeys : GetCacheEntry(key)
  \/ \E ttl \in TtlArguments : SetDefaultTtl(ttl)
  \/ \E maxEntries \in MaxEntriesArguments : SetMaxEntries(maxEntries)
  \/ Tick

SpecLimits == InitCache /\ [][NextLimits]_vars

(***************************************************************************)
(* TaskAgent (src/agents/task.ts).  A step is one execute(input) call up   *)
(* to its return or up to the await of performTaskWork; WorkDone is the    *)
(* rest of an 'execute' call, from the end of that await to the return.    *)
(* executeWithRetry only decides when execute is called and whether its    *)
(* response is still awaited: an attempt that timed out keeps running, so  *)
(* the calls and their continuations interleave in any order here.         *)
(***************************************************************************)

\* what description may hold: a string, or null (kept by updateTask, whose
\* test is !== undefined)
Descriptions == {"text", "null"}

\* names given to 'create': absent/empty, or a name
TaskNames == {"", "job"}

\* the settings objects given to the constructor: no maxConcurrentTasks, 1, 2
GivenLimits == {<<>>, <<1>>, <<2>>}

\* the ids of the tasks in the map that have the status
tasksWith(st) ==
  {id \in TaskIds : tasks[id] # <<>> /\ tasks[id][1].status = st}

\* the response execute builds: success with data, or the caught error
\* (task.ts:95-107)
taskResponse(op, id, error) ==
  [op |-> op, taskId |-> id, state |-> "returned",
   success |-> (error = ""), error |-> error]

\* execute({action: 'create', name}) (task.ts:73-74, 110-135)
CreateTask(name) ==
  /\ taskOpsLeft > 0
  /\ taskOpsLeft' = taskOpsLeft - 1
  /\ IF name = ""
       THEN /\ taskSeen' = taskResponse("create", "",
                                        "Task name is required for creation")
            /\ UNCHANGED tasks
       ELSE \E taskId \in TaskIds :
              /\ tasks[taskId] = <<>>
              /\ tasks' = [tasks EXCEPT ![taskId] =
                   <<[status |-> "pending", description |-> "text",
                      result |-> <<>>, error |-> <<>>]>>]
              /\ taskSeen' = taskResponse("create", taskId, "")
  /\ UNCHANGED <<runningTasks, taskSettings>>
  /\ UNCHANGED agentVars
  /\ UNCHANGED engineVars
  /\ UNCHANGED cacheVars

\* execute({action: 'execute', taskId}) up to the await of performTaskWork
\* (task.ts:76-77, 137-171)
ExecuteTask(taskId) ==
  /\ taskOpsLeft > 0
  /\ taskOpsLeft' = taskOpsLeft - 1
  /\ IF tasks[taskId] = <<>>
       THEN /\ taskSeen' = taskResponse("execute", taskId, "Task not found")
            /\ UNCHANGED <<tasks, runningTasks>>
     ELSE IF tasks[taskId][1].status = "completed"
       THEN /\ taskSeen' = taskResponse("execute", taskId, "")
            /\ UNCHANGED <<tasks, runningTasks>>
     ELSE IF tasks[taskId][1].status = "running"
       THEN /\ taskSeen' = taskResponse("execute", taskId,
                                        "Task is already running")
            /\ UNCHANGED <<tasks, runningTasks>>
     ELSE IF Cardinality(runningTasks) >= taskSettings.maxConcurrentTasks
       THEN /\ taskSeen' = taskResponse("execute", taskId,
                              "Maximum concurrent tasks limit reached")
            /\ UNCHANGED <<tasks, runningTasks>>
     ELSE /\ tasks' = [tasks EXCEPT ![taskId][1].status = "running"]
          /\ runningTasks' = runningTasks \cup {taskId}
          /\ taskSeen' = [op |-> "execute", taskId |-> taskId,
                          state |-> "awaiting", success |-> FALSE, error |-> ""]
  /\ UNCHANGED taskSettings
  /\ UNCHANGED agentVars
  /\ UNCHANGED engineVars
  /\ UNCHANGED cacheVars

\* the rest of executeTask, from the end of the sleep in performTaskWork
\* (task.ts:296) to the return (task.ts:173-193): generateTaskResult throws
\* when the description is not a string (task.ts:363)
WorkDone(taskId) ==
  /\ tasks[taskId] # <<>>
  /\ tasks[taskId][1].status = "running"
  /\ IF tasks[taskId][1].description # "null"
       THEN /\ tasks' = [tasks EXCEPT ![taskId][1].status = "completed",
                                      ![taskId][1].result = <<"result">>]
            /\ taskSeen' = taskResponse("execute", taskId, "")
       ELSE /\ tasks' = [tasks EXCEPT ![taskId][1].status = "failed",
                                      ![taskId][1].error = <<"TypeError">>]
            /\ taskSeen' = taskResponse("execute", taskId, "TypeError")
  /\ runningTasks' = runningTasks \ {taskId}
  /\ UNCHANGED <<taskSettings, taskOpsLeft>>
  /\ UNCHANGED agentVars
  /\ UNCHANGED engineVars
  /\ UNCHANGED cacheVars

\* execute({action: 'update', taskId, description}) (task.ts:85-86, 240-266);
\* description is <<>> when the input has none
UpdateTask(taskId, description) ==
  /\ taskOpsLeft > 0
  /\ taskOpsLeft' = taskOpsLeft - 1
  /\ IF tasks[taskId] = <<>>
       THEN /\ taskSeen' = taskResponse("update", taskId, "Task not found")
            /\ UNCHANGED tasks
     ELSE IF tasks[taskId][1].status = "running"
       THEN /\ taskSeen' = taskResponse("update", taskId,
                                        "Cannot update a running task")
            /\ UNCHANGED tasks
     ELSE /\ tasks' = IF description = <<>> THEN tasks
                      ELSE [tasks EXCEPT ![taskId][1].description = description[1]]
          /\ taskSeen' = taskResponse("update", taskId, "")
  /\ UNCHANGED <<runningTasks, taskSettings>>
  /\ UNCHANGED agentVars
  /\ UNCHANGED engineVars
  /\ UNCHANGED cacheVars

\* execute({action: 'delete', taskId}) (task.ts:88-89, 268-289)
DeleteTask(taskId) ==
  /\ taskOpsLeft > 0
  /\ taskOpsLeft' = taskOpsLeft - 1
  /\ IF tasks[taskId] = <<>>
       THEN /\ taskSeen' = taskResponse("delete", taskId, "Task not found")
            /\ UNCHANGED <<tasks, runningTasks>>
     ELSE IF tasks[taskId][1].status = "running"
       THEN /\ taskSeen' = taskResponse("delete", taskId,
                                        "Cannot delete a running task")
            /\ UNCHANGED <<tasks, runningTasks>>
     ELSE /\ tasks' = [tasks EXCEPT ![taskId] = <<>>]
          /\ runningTasks' = runningTasks \ {taskId}
          /\ taskSeen' = taskResponse("delete", taskId, "")
  /\ UNCHANGED taskSettings
  /\ UNCHANGED agentVars
  /\ UNCHANGED engineVars
  /\ UNCHANGED cacheVars

\* shutdown of the TaskAgent (task.ts:412-416): runningTasks.clear(), then
\* the shutdown of the Agent (base.ts:216-219); no task changes its status
TaskShutdown ==
  /\ taskOpsLeft > 0
  /\ taskOpsLeft' = taskOpsLeft - 1
  /\ runningTasks' = {}
  /\ taskSeen' = taskResponse("shutdown", "", "")
  /\ status' = "shutdown"
  /\ listeners' = {}
  /\ history' = [history EXCEPT !.shutdown = TRUE]
  /\ UNCHANGED <<tasks, taskSettings>>
  /\ UNCHANGED <<config, metrics, totalExecutionTime, successfulExecutions,
                 calls, callsLeft, handlers, concrete>>
  /\ UNCHANGED engineVars
  /\ UNCHANGED cacheVars

NextTask ==
  \/ \E name \in TaskNames : CreateTask(name)
  \/ \E taskId \in TaskIds : ExecuteTask(taskId)
  \/ \E taskId \in TaskIds : WorkDone(taskId)
  \/ \E taskId \in TaskIds, d \in {<<>>} \cup {<<x>> : x \in Descriptions} :
       UpdateTask(taskId, d)
  \/ \E taskId \in TaskIds : DeleteTask(taskId)
  \/ TaskShutdown

InitTask ==
  /\ Constructed([maxExecutionTime |-> 0, retryPolicy |-> <<>>])
  /\ callsLeft = [c \in Slots |-> 0]
  /\ handlers = {}
  /\ concrete = {}
  /\ EngineConstructed
  /\ opsLeft = 0
  /\ CacheUnused
  /\ \E given \in GivenLimits : TaskConstructed(given)
  /\ taskOpsLeft = MaxTaskCalls

SpecTask == InitTask /\ [][NextTask]_vars


(***************************************************************************)
(* Properties.                                                             *)
(***************************************************************************)
\* the latest attempt of frame k is over
attemptOver(k) == k.last # <<>>
\* ... and it raised out of executeInternal or returned success = false
attemptFailed(k) ==
  attemptOver(k) /\ (k.last[1].raised \/ ~k.last[1].response[1].success)
\* ... and it returned success = true
attemptSucceeded(k) ==
  attemptOver(k) /\ ~k.last[1].raised /\ k.last[1].response[1].success

\* C1: executeWithRetry never raises, whatever the concrete execute and the
\* listeners do: a finished call has returned exactly one response, and the
\* response says success = false exactly when its last attempt failed.
ExecuteWithRetryNeverRaises ==
  \A c \in Slots :
    /\ calls[c].threw = <<>>
    /\ calls[c].pc = "done" =>
         /\ Len(calls[c].result) = 1
         /\ calls[c].result[1].success = attemptSucceeded(calls[c])
         /\ attemptFailed(calls[c]) => ~calls[c].result[1].success

\* C1 witness: a call has returned a failure after its last attempt raised out
\* of executeInternal (the 'execution-error' listener threw)
FaultCaughtByRetryLoop ==
  \E c \in Slots :
    /\ calls[c].pc = "done"
    /\ attemptOver(calls[c]) /\ calls[c].last[1].raised
    /\ calls[c].result # <<>> /\ ~calls[c].result[1].success

\* the error of the response of the latest attempt of frame k
lastAttemptError(k) ==
  IF k.last[1].raised THEN "no response" ELSE Interpolate(k.last[1].response[1].error)

\* C2: a call whose every attempt failed has invoked the concrete execute
\* maxRetries + 1 times and returns success = false, executionTime 0 and the
\* error 'Failed after <maxRetries + 1> attempts. Last error: <lastError>'.
PermanentFailureTakesAllAttempts ==
  \A c \in Slots :
    (calls[c].pc = "done" /\ attemptFailed(calls[c])) =>
      /\ calls[c].invoked = config.retryPolicy.maxRetries + 1
      /\ calls[c].result =
           Some([success |-> FALSE, data |-> Undefined, executionTime |-> 0,
                 error |-> Some("Failed after " \o ToString(calls[c].invoked)
                                \o " attempts. Last error: "
                                \o lastAttemptError(calls[c]))])

\* C2 witness: three failed attempts under the default policy, the last one
\* with a non-zero execution time
ThreeFailedAttempts ==
  \E c \in Slots :
    /\ calls[c].pc = "done" /\ attemptFailed(calls[c])
    /\ calls[c].invoked = 3
    /\ calls[c].last[1].response[1].executionTime > 0

\* C3 (state part): an attempt that returned success = true has ended its call
\* with that very response, and a call never makes more than maxRetries + 1
\* attempts.
SuccessIsReturned ==
  \A c \in Slots :
    /\ attemptSucceeded(calls[c]) =>
         calls[c].pc = "done" /\ calls[c].result = calls[c].last[1].response
    /\ calls[c].invoked <= config.retryPolicy.maxRetries + 1
    /\ calls[c].attempt <= config.retryPolicy.maxRetries

\* C3 (step part): the step in which an attempt succeeds sets the status to
\* idle, and a finished call neither sleeps nor attempts again.
SuccessEndsTheCallStep ==
  \A c \in Slots :
    /\ (calls[c].pc = "inflight" /\ attemptSucceeded(calls'[c])) => status' = "idle"
    /\ (calls[c].pc = "done" /\ calls'[c] # calls[c]) =>
         /\ callsLeft'[c] = callsLeft[c] - 1
         /\ calls'[c].attempt = 0 /\ calls'[c].slept = <<>>

\* C3: the first successful attempt ends the call.
FirstSuccessEndsTheCall == []SuccessIsReturned /\ [][SuccessEndsTheCallStep]_vars

\* C3 witness: a call has returned a success from a retry while further
\* attempts were still allowed
SuccessBeforeLastAttempt ==
  \E c \in Slots :
    /\ calls[c].pc = "done" /\ attemptSucceeded(calls[c])
    /\ calls[c].attempt = 1 /\ calls[c].maxRetries = 2
    /\ status = "idle"


\* the last event emitted by the latest attempt of frame k
terminalEvent(k) == k.events[Len(k.events)]

\* C4: an attempt that returned success = false or raised a fault ends with
\* the status set to error and 'execution-error' emitted, and emits no
\* 'execution-complete'.
FailedAttemptReportsError ==
  \A c \in Slots :
    attemptFailed(calls[c]) =>
      /\ terminalEvent(calls[c]).name = "execution-error"
      /\ terminalEvent(calls[c]).status = "error"
      /\ \A i \in 1..Len(calls[c].events) :
           calls[c].events[i].name # "execution-complete"

\* C5: once shutdown() has set the status to shutdown, no step changes it.
ShutdownIsTerminal == [][status = "shutdown" => status' = "shutdown"]_vars

\* the edges of the documented state machine
DocumentedEdges ==
  {<<"idle", "running">>, <<"running", "idle">>, <<"running", "error">>,
   <<"error", "running">>} \cup {<<s, "shutdown">> : s \in AgentStatus}

\* C6: every change of the status follows an edge of the documented state
\* machine; stated for agents on which shutdown() has not been called, where
\* the edges out of shutdown (C5) play no part.
StatusFollowsDocumentedEdges ==
  [][(status' # status /\ ~history'.shutdown) =>
       <<status, status'>> \in DocumentedEdges]_vars

\* the attempts that have invoked the concrete execute and not yet settled
inFlight == {c \in Slots : calls[c].pc = "inflight"}

SuccessRateConsistent ==
  LET r == metrics.successRate
      n == metrics.executionsCount
      k == successfulExecutions
  IN  /\ r.den > 0 /\ 0 <= r.num /\ r.num <= 100 * r.den
      /\ 0 <= k /\ k <= n
      /\ n > 0 => r.num * n = 100 * k * r.den
      /\ n = 0 => r.num = 0

\* C8 witness: after a resetMetrics, one success in two attempts
HalfSuccessfulAfterReset ==
  /\ history.reset
  /\ metrics.executionsCount = 2 /\ successfulExecutions = 1
  /\ metrics.successRate = [num |-> 100, den |-> 2]

\* the strings of s, a sequence of defined optional strings
texts(s) == [i \in 1..Len(s) |-> s[i][1]]

hasMessage(o) == o # Undefined

\* C9 as stated: the log holds at most 10 entries, and they are the error
\* messages of the most recent failed attempts, in order of occurrence.
ErrorLogHoldsEveryFailure ==
  /\ Len(metrics.errors) <= 10
  /\ metrics.errors = sliceLast(texts(SelectSeq(history.failures, hasMessage)), 10)

\* C9 amended: the log holds at most 10 entries, and they are the non-empty
\* error messages of the most recent failed attempts that had one, in order
\* of occurrence.
ErrorLogHoldsNonEmptyMessages ==
  /\ Len(metrics.errors) <= 10
  /\ metrics.errors = sliceLast(texts(SelectSeq(history.failures, Truthy)), 10)

\* C9 witness: more than 10 failures with a message, so the oldest were
\* dropped, and a failure with an empty message among the failures
ErrorLogOverflowed ==
  /\ Len(metrics.errors) = 10
  /\ Len(SelectSeq(history.failures, Truthy)) > 10
  /\ \E i \in 1..Len(history.failures) : history.failures[i] = Some("")
  /\ metrics.errors[9] # metrics.errors[10]

BackoffDoublesPerAttempt ==
  \A c \in Slots :
    LET k == calls[c]
    IN  /\ k.slept = [i \in 1..Len(k.slept) |-> k.backoffMs * 2^(i - 1)]
        /\ k.pc = "inflight" => Len(k.slept) = k.attempt
        /\ k.pc = "sleeping" =>
              /\ attemptFailed(k)
              /\ k.attempt < k.maxRetries
              /\ k.sleepMs = k.backoffMs * 2^k.attempt
              /\ Len(k.slept) = k.attempt + 1
        /\ k.pc = "done" => Len(k.slept) = k.attempt /\ k.attempt <= k.maxRetries
        /\ attemptFailed(k) =>
              IF k.attempt < k.maxRetries THEN k.pc = "sleeping" ELSE k.pc = "done"

\* C11 witness: the second attempt of a call with the default policy raised
\* a fault into the retry loop, and the call now sleeps 2000 ms
SleepsTwiceAsLongAfterFault ==
  \E c \in Slots :
    /\ calls[c].pc = "sleeping"
    /\ calls[c].attempt = 1
    /\ calls[c].last[1].raised
    /\ calls[c].slept = <<DefaultBackoffMs, 2 * DefaultBackoffMs>>

\* C12: an attempt ended by the timer of maxExecutionTime is a failed attempt
\* whose error is 'Execution timeout after <maxExecutionTime>ms'; it is
\* counted in the metrics once and retried like any other failed attempt.
TimeoutIsAFailedAttempt ==
  \A c \in Slots :
    LET k == calls[c]
        text == "Execution timeout after " \o ToString(config.maxExecutionTime) \o "ms"
    IN  k.timedOut =>
          /\ config.maxExecutionTime # 0
          /\ attemptFailed(k)
          /\ ~k.last[1].raised
          /\ k.last[1].response[1].error = Some(text)
          /\ k.updates = 1
          /\ k.lastError = Some(text)
          /\ IF k.attempt < k.maxRetries
                THEN k.pc = "sleeping" /\ k.sleepMs = k.backoffMs * 2^k.attempt
                ELSE /\ k.pc = "done"
                     /\ k.result[1].error =
                          Some("Failed after " \o ToString(k.maxRetries + 1)
                               \o " attempts. Last error: " \o text)

\* C12 witness: an attempt timed out although the concrete execute can settle,
\* and the call backs off for a retry
TimedOutAttemptIsRetried ==
  \E c \in Slots :
    /\ calls[c].timedOut
    /\ calls[c].pc = "sleeping"
    /\ concrete # {}
    /\ metrics.errors # <<>>
    /\ metrics.errors[Len(metrics.errors)] = "Execution timeout after 50ms"

\* the attempt the dispatched call d waits for can end: the concrete execute
\* settles, or maxExecutionTime is configured
canSettle(d) ==
  /\ dispatch[d].obj # NoAgent
  /\ Settlements(concrete, heap[dispatch[d].obj].config.maxExecutionTime) # {}

\* C13: every dispatched executeAgent call whose attempts can end eventually
\* returns, and it returns exactly one AgentResponse; also when its agent is
\* removed or shut down while the call is in flight.
DispatchedCallReturns ==
  /\ [](\A d \in Dispatches :
          dispatch[d].pc = "returned" => Len(dispatch[d].response) = 1)
  /\ \A d \in Dispatches :
       (dispatch[d].pc = "running" /\ canSettle(d)) ~> (dispatch[d].pc = "returned")

\* C13 witness: a call has returned although its agent was removed from the
\* registry and shut down while the call was in flight
ReturnedAfterRemoval ==
  \E d \in Dispatches :
    /\ dispatch[d].pc = "returned"
    /\ Len(dispatch[d].response) = 1
    /\ dispatch[d].k.invoked = 2
    /\ heap[dispatch[d].obj].shut
    /\ agents[dispatch[d].agentId] = NoAgent

\* this step is a call of the engine operation op
called(op) == opsLeft' = opsLeft - 1 /\ reply'.op = op

\* C14: registerAgentType fails when the name is already registered and leaves
\* the earlier constructor bound; no step of the engine, removeAgent and
\* shutdown() included, removes or rebinds a registered type name.
RegisteredTypesArePermanent ==
  [][ /\ \A n \in TypeNames :
           agentTypes[n] # Unregistered => agentTypes'[n] = agentTypes[n]
      /\ called("registerAgentType") =>
           IF agentTypes[reply'.arg] # Unregistered
             THEN /\ reply'.raised
                  /\ reply'.error =
                       "Agent type '" \o reply'.arg \o "' is already registered"
                  /\ agentTypes' = agentTypes
             ELSE /\ ~reply'.raised
                  /\ agentTypes'[reply'.arg] \in AgentClasses
                  /\ \A n \in TypeNames \ {reply'.arg} : agentTypes'[n] = agentTypes[n]
    ]_vars

\* C14 witness: a second registration of a name has failed after the last
\* agent was removed from the registry
ReRegistrationRefused ==
  /\ reply.op = "registerAgentType"
  /\ reply.raised
  /\ agentTypes[reply.arg] \in AgentClasses
  /\ heap # <<>>
  /\ registered(agents) = {}
  /\ pending = "none"

\* the errors createAgent raises for the id
createAgentErrors(id) ==
  {"Agent with ID '" \o id \o "' already exists",
   "Failed to create agent: invalid config"}
  \cup {"Unknown agent type: " \o n : n \in TypeNames}

\* C15: a createAgent call that fails leaves the registry and every agent as
\* they were; a call that succeeds adds exactly one new agent, under agentId.
CreateAgentAddsOneOrNothing ==
  [][ called("createAgent") =>
        LET id == reply'.arg
        IN  /\ agents[id] # NoAgent =>
                 /\ reply'.raised
                 /\ reply'.error = "Agent with ID '" \o id \o "' already exists"
            /\ IF reply'.raised
                 THEN /\ reply'.error \in createAgentErrors(id)
                      /\ agents' = agents
                      /\ heap' = heap
                 ELSE /\ agents[id] = NoAgent
                      /\ agents'[id] = Len(heap) + 1
                      /\ \A other \in AgentIds \ {id} : agents'[other] = agents[other]
                      /\ Len(heap') = Len(heap) + 1
                      /\ SubSeq(heap', 1, Len(heap)) = heap
                      /\ heap'[Len(heap')].t.status = "idle"
    ]_vars

\* C15 witness: a constructor has raised while another agent was registered
ConstructorRaised ==
  /\ reply.op = "createAgent"
  /\ reply.raised
  /\ reply.error = "Failed to create agent: invalid config"
  /\ agents[reply.arg] = NoAgent
  /\ registered(agents) # {}

\* C16: removeAgent of an id that is not registered returns false and changes
\* nothing; of a registered id it returns true, the agent's status becomes
\* 'shutdown' and the id leaves the registry.  executeAgent of an id that is
\* not registered fails with the not-found error, and only createAgent(id)
\* enters an id in the registry.
RemoveAgentUnregisters ==
  [][ /\ called("removeAgent") =>
           LET id == reply'.arg
           IN  IF agents[id] = NoAgent
                 THEN /\ reply'.value = "false"
                      /\ UNCHANGED <<agentTypes, agents, totalExecutions, heap,
                                     dispatch, pending>>
                 ELSE /\ reply'.value = "true"
                      /\ heap'[agents[id]].t.status = "shutdown"
                      /\ agents'[id] = NoAgent
                      /\ \A other \in AgentIds \ {id} : agents'[other] = agents[other]
      /\ called("executeAgent") /\ agents[reply'.arg] = NoAgent =>
           /\ reply'.raised
           /\ reply'.error = "Agent with ID '" \o reply'.arg \o "' not found"
      /\ \A id \in AgentIds :
           agents[id] = NoAgent /\ agents'[id] # NoAgent =>
             called("createAgent") /\ reply'.arg = id /\ ~reply'.raised
    ]_vars

\* C16 witness: an agent has been removed while a call to it was in flight
RemovedWhileInFlight ==
  /\ reply.op = "removeAgent"
  /\ reply.value = "true"
  /\ agents[reply.arg] = NoAgent
  /\ \E d \in Dispatches :
       /\ dispatch[d].pc = "running"
       /\ dispatch[d].agentId = reply.arg
       /\ heap[dispatch[d].obj].t.status = "shutdown"

\* C17: executeAgent fails with the not-found error for an id that is not
\* registered and with the shutdown error for a registered agent whose status
\* is 'shutdown', and then neither invokes the concrete execute nor changes
\* totalExecutions; every other executeAgent call adds exactly one to
\* totalExecutions, and the attempts it takes add nothing.
ExecuteAgentCountsOncePerCall ==
  [][ /\ called("executeAgent") =>
           LET id == reply'.arg
           IN  IF agents[id] = NoAgent
                 THEN /\ reply'.raised
                      /\ reply'.error = "Agent with ID '" \o id \o "' not found"
                      /\ UNCHANGED <<totalExecutions, heap, dispatch>>
                 ELSE IF heap[agents[id]].t.status = "shutdown"
                   THEN /\ reply'.raised
                        /\ reply'.error = "Agent '" \o id \o "' has been shutdown"
                        /\ UNCHANGED <<totalExecutions, heap, dispatch>>
                   ELSE /\ ~reply'.raised
                        /\ totalExecutions' = totalExecutions + 1
                        /\ \E d \in Dispatches :
                             /\ dispatch'[d].agentId = id
                             /\ dispatch'[d].k.invoked = 1
      /\ ~called("executeAgent") /\ ~called("resetAllMetrics") =>
           totalExecutions' = totalExecutions
    ]_vars

\* C17 witness: executeAgent of a registered agent has failed with the shutdown
\* error (the engine's shutdown() has not yet cleared the registry)
ShutdownAgentRefused ==
  /\ reply.op = "executeAgent"
  /\ reply.raised
  /\ agents[reply.arg] # NoAgent
  /\ reply.error = "Agent '" \o reply.arg \o "' has been shutdown"
  /\ totalExecutions = 0

\* C18: when the engine's shutdown() completes the registry is empty and
\* every agent it removed from the registry has had its shutdown() called,
\* whatever engine calls were made while shutdown() was suspended.
ShutdownShutsWhatItRemoves ==
  [][ pending = "awaiting" /\ pending' = "none" =>
        /\ \A id \in AgentIds : agents'[id] = NoAgent
        /\ \A id \in AgentIds : agents[id] # NoAgent => heap[agents[id]].shut
    ]_vars

\* the registered agents whose status is st
inStatus(st) ==
  {id \in AgentIds : agents[id] # NoAgent /\ heap[agents[id]].t.status = st}

\* C19: getStats() has a count for each of the four statuses, each count is
\* the number of registered agents now in that status, the counts add up to
\* totalAgents, and totalAgents is the size of the registry.
StatsCountTheRegistry ==
  LET stats == getStats
  IN  /\ DOMAIN stats.agentsByStatus = AgentStatus
      /\ \A st \in AgentStatus :
           stats.agentsByStatus[st] = Cardinality(inStatus(st))
      /\ stats.agentsByStatus["idle"] + stats.agentsByStatus["running"]
           + stats.agentsByStatus["error"] + stats.agentsByStatus["shutdown"]
           = stats.totalAgents
      /\ stats.totalAgents = Cardinality({id \in AgentIds : agents[id] # NoAgent})
      /\ stats.totalExecutions = totalExecutions

\* C19 witness: the registry holds a running agent and an idle one
StatsOverMixedStatuses ==
  /\ getStats.agentsByStatus["running"] = 1
  /\ getStats.agentsByStatus["idle"] = 1
  /\ getStats.agentsByStatus["shutdown"] = 0
  /\ getStats.totalAgents = 2

\* this step is a lookup: beforeExecution or getCacheEntry
lookedUp ==
  /\ cacheOpsLeft' = cacheOpsLeft - 1
  /\ seen'.op \in {"beforeExecution", "getCacheEntry"}

\* the entry stored under key is within its time to live
fresh(key) == now < stored[key][1].timestamp + stored[key][1].ttl

inserted ==
  /\ cacheOpsLeft' = cacheOpsLeft - 1
  /\ seen'.outcome = "stored"

\* the entries of c under the keys other than key
others(c, key) == {c[i] : i \in {j \in DOMAIN c : c[j].key # key}}

\* the i-th entry of c has the smallest timestamp of c
oldest(c, i) == \A j \in DOMAIN c : c[i].timestamp <= c[j].timestamp

\* C21: an insertion into a cache that holds maxEntries entries removes
\* exactly one entry, one with the smallest timestamp of the entries present,
\* before the new entry is added; an insertion into a cache that holds fewer
\* entries removes nothing.
InsertionAtCapacityEvictsOldest ==
  [][ inserted =>
        LET key == seen'.key
        IN  /\ indexOf(cache', key) # 0
            /\ Len(cache) = cacheConfig.maxEntries =>
                 \E i \in DOMAIN cache :
                   /\ oldest(cache, i)
                   /\ others(cache', key) = others(without(cache, i), key)
            /\ Len(cache) < cacheConfig.maxEntries =>
                 others(cache', key) = others(cache, key)
    ]_vars

\* a plugin call is made in the step, and it is op
pluginCalled(op) == cacheOpsLeft' = cacheOpsLeft - 1 /\ seen'.op = op

DisabledPluginPassesThrough ==
  [][ ~(enabled /\ initialized) =>
        /\ \A input \in Inputs, context \in PluginContexts :
             pluginCalled("beforeExecution") /\ BeforeExecution(input, context) =>
               /\ seen' = returns(input, "", "pass", <<>>)
               /\ UNCHANGED <<cache, totalHits, totalMisses>>
        /\ \A response \in Responses, context \in Contexts :
             pluginCalled("afterExecution") /\ AfterExecution(response, context) =>
               /\ seen'.outcome = "pass"
               /\ seen'.value = <<response>>
               /\ UNCHANGED <<cache, totalHits, totalMisses>>
    ]_vars

\* C23 witness: beforeExecution of a plugin that is enabled but not
\* initialized has passed its input through, although the cache holds a valid
\* entry under the key of that input; no counter has moved
PassedThroughBeforeInit ==
  /\ seen.op = "beforeExecution"
  /\ seen.outcome = "pass"
  /\ enabled /\ ~initialized
  /\ seen.input[1] # Cyclic
  /\ \E i \in DOMAIN cache, context \in PluginContexts :
       /\ cache[i].key = keyGenerator(seen.input[1], context)
       /\ isEntryValid(cache[i], now)
       /\ cache[i].hits = 0
  /\ totalHits = 0 /\ totalMisses = 0

\* C24: init() is idempotent and destroy() is symmetric, also for calls that
\* overlap.  When the latest plugin call was an init() that ran onInit, an
\* init() call made next, whether the first has completed or not, returns
\* without running onInit, so that onInit runs at most once between two
\* destroy() calls; likewise a destroy() call made right after a destroy()
\* that ran onDestroy does not run onDestroy again.
InitAndDestroyRunTheirHookOnce ==
  [][ /\ pluginCalled("init") /\ seen.op = "init" /\ seen.outcome = "suspended" =>
           /\ seen'.outcome = "returned"
           /\ timers' = timers
      /\ pluginCalled("destroy") /\ seen.op = "destroy"
           /\ seen.outcome = "suspended" =>
           /\ seen'.outcome = "returned"
           /\ suspended'.destroy = suspended.destroy
    ]_vars

\* C25: a fault raised inside the work of the plugin does not reach the
\* caller: neither beforeExecution nor afterExecution ends by raising, also
\* when the key generator or the copy of the response fails.
HookFaultsAreContained ==
  [][ pluginCalled("beforeExecution") \/ pluginCalled("afterExecution") =>
        seen'.outcome # "raised"
    ]_vars

held == DOMAIN heap

\* C27: no call of updateSettings, updateConfig or updateAgentConfig takes a
\* key out of an agent's settings: every key the settings held before the
\* call they hold after it
SettingsOnlyMergedInto ==
  [][ \A o \in held, k \in SettingNames :
        heap[o].settings[k] # <<>> => heap'[o].settings[k] # <<>> ]_vars

\* C28: the expiry sweep is housekeeping only.  When the interval timer may
\* fire, the cache it would leave holds no entry whose age has reached its
\* ttl, every lookup finds in it what it finds in the cache as it is, and
\* after one more insertion every lookup still finds the same with and
\* without the sweep.
SweepChangesNoLookup ==
  timers > 0 =>
    LET swept == cleanupExpiredEntries(cache, now)
    IN  /\ \A i \in DOMAIN swept : now - swept[i].timestamp < swept[i].ttl
        /\ \A k \in Keys : found(swept, k, now) = found(cache, k, now)
        /\ \A key \in Keys, ttl \in Ttls, k \in Keys :
             found(setCacheEntry(swept, cacheConfig, now, key, OkText, ttl), k, now)
               = found(setCacheEntry(cache, cacheConfig, now, key, OkText, ttl), k, now)

\* a plugin call that ends the step is the call op
pluginEnds(op) == cacheOpsLeft' < cacheOpsLeft /\ seen'.op = op

\* the entries of c0 that are not in c1
removed(c0, c1) == {c0[i] : i \in DOMAIN c0} \ {c1[i] : i \in DOMAIN c1}

\* C29: setDefaultTtl(ttl) with ttl < 0 and setMaxEntries(n) with n < 1
\* raise and change neither the configuration nor the cache; setMaxEntries(n)
\* with n >= 1 returns, the cache then holds at most n entries, all of them
\* entries it held before, and no removed entry is younger than a kept one.
LimitSettersValidateAndShrink ==
  [][ /\ \A ttl \in TtlArguments :
           pluginEnds("setDefaultTtl") /\ ttl < 0 /\ SetDefaultTtl(ttl) =>
             /\ seen'.outcome = "raised"
             /\ cacheConfig' = cacheConfig
             /\ cache' = cache
      /\ \A n \in MaxEntriesArguments :
           pluginEnds("setMaxEntries") /\ SetMaxEntries(n) =>
             IF n < 1
               THEN /\ seen'.outcome = "raised"
                    /\ cacheConfig' = cacheConfig
                    /\ cache' = cache
               ELSE /\ seen'.outcome = "returned"
                    /\ cacheConfig'.maxEntries = n
                    /\ Len(cache') <= n
                    /\ \A i \in DOMAIN cache' : \E j \in DOMAIN cache : cache'[i] = cache[j]
                    /\ \A r \in removed(cache, cache'), i \in DOMAIN cache' :
                         r.timestamp <= cache'[i].timestamp ]_vars

\* the statistics of the plugin as it is
statsNow == getCacheStats(cache, totalHits, totalMisses, now)

\* the step is a beforeExecution of an enabled plugin that returns
enabledLookup ==
  /\ pluginCalled("beforeExecution")
  /\ enabled /\ initialized
  /\ seen'.outcome # "raised"

\* the step counts a hit: totalHits and the hits of the entry under the key
\* go up by one and nothing else changes
countsHit ==
  /\ seen'.outcome = "hit"
  /\ totalHits' = totalHits + 1
  /\ totalMisses' = totalMisses
  /\ \E i \in DOMAIN cache :
       /\ cache[i].key = seen'.key
       /\ cache' = [cache EXCEPT ![i].hits = cache[i].hits + 1]

\* the step counts a miss: totalMisses goes up by one, nothing else changes
countsMiss ==
  /\ seen'.outcome = "miss"
  /\ totalMisses' = totalMisses + 1
  /\ totalHits' = totalHits
  /\ cache' = cache

zeroed(agent) ==
  [agent EXCEPT !.t = [status |-> agent.t.status, metrics |-> emptyMetrics,
                       totalExecutionTime |-> 0, successfulExecutions |-> 0]]

\* C31: updateAgentConfig and resetAgentMetrics of an id that is not
\* registered return false and change no agent and no counter of the engine;
\* resetAgentMetrics of a registered agent returns true and zeroes the metrics
\* and the totals of that agent only, its status, every other agent and
\* totalExecutions staying as they are; resetAllMetrics zeroes the metrics of
\* every registered agent and totalExecutions.
ResetsTouchOnlyTheirTarget ==
  [][ /\ called("updateAgentConfig") /\ agents[reply'.arg] = NoAgent =>
           /\ reply'.value = FALSE
           /\ UNCHANGED <<heap, agents, agentTypes, totalExecutions, dispatch>>
      /\ called("resetAgentMetrics") =>
           LET id == reply'.arg
           IN  IF agents[id] = NoAgent
                 THEN /\ reply'.value = FALSE
                      /\ UNCHANGED <<heap, agents, agentTypes, totalExecutions, dispatch>>
                 ELSE /\ reply'.value = TRUE
                      /\ heap' = [heap EXCEPT ![agents[id]] = zeroed(@)]
                      /\ UNCHANGED <<agents, agentTypes, totalExecutions, dispatch>>
      /\ called("resetAllMetrics") =>
           /\ totalExecutions' = 0
           /\ UNCHANGED <<agents, agentTypes, dispatch>>
           /\ \A id \in registered(agents) :
                heap'[agents[id]] = zeroed(heap[agents[id]])
    ]_vars

\* C31 witness: resetAgentMetrics has returned true for an agent that had
\* executed; its metrics are zero and totalExecutions still counts the call
MetricsOfOneAgentReset ==
  /\ reply.op = "resetAgentMetrics"
  /\ reply.value = TRUE
  /\ totalExecutions = 1
  /\ heap[agents[reply.arg]].t.metrics = emptyMetrics
  /\ heap[agents[reply.arg]].t.totalExecutionTime = 0
  /\ \E d \in Dispatches : dispatch[d].agentId = reply.arg /\ dispatch[d].pc = "returned"

\* C32: the cache never holds more entries than the configured maxEntries
CacheWithinMaxEntries == Len(cache) <= cacheConfig.maxEntries

\* C33: while an attempt of the agent is in flight, its concrete execute
\* started and its response not yet produced, and shutdown() has not been
\* called, the status of the agent is 'running'
RunningWhileAttemptInFlight ==
  inFlight # {} /\ ~history.shutdown => status = "running"

\* the step is the completion of a destroy() that ran onDestroy
destroyCompletes == suspended'.destroy < suspended.destroy

\* C34: at any time at most one interval timer of the plugin is running, and
\* when a destroy() completes the cache is empty, the plugin is not
\* initialized and no interval timer of the plugin is left running
DestroyLeavesNothingBehind ==
  /\ [](timers <= 1)
  /\ [][ destroyCompletes =>
           /\ cache' = <<>>
           /\ ~initialized'
           /\ timers' = 0 ]_vars

\* a TaskAgent call of the kind is made in the step
taskCalled(op) == taskOpsLeft' = taskOpsLeft - 1 /\ taskSeen'.op = op

\* C35: the number of tasks with status 'running' never exceeds
\* maxConcurrentTasks, whatever the interleaving of create, execute, update,
\* delete, continuing work and shutdown; and an update or a delete of a task
\* with status 'running' fails and leaves the task as it is
RunningTasksWithinLimit ==
  /\ [](Cardinality(tasksWith("running")) <= taskSettings.maxConcurrentTasks)
  /\ [][ \A taskId \in tasksWith("running") :
           (taskCalled("update") \/ taskCalled("delete"))
           /\ taskSeen'.taskId = taskId
           => ~taskSeen'.success /\ tasks'[taskId] = tasks[taskId] ]_vars

====
